---- MODULE Spec2Model ----
(***************************************************************************)
(* A state-machine model of the RSTM runtime's two concurrency-control     *)
(* algorithms, ByteEager (src/libstm/algs/byteeager.cpp) and Nano          *)
(* (src/libstm/algs/nano.cpp), and of the undo-log / write-set rollback    *)
(* paths of src/libstm/types.cpp.                                           *)
(*                                                                         *)
(* Every shared-memory access of a barrier is one step of the thread that  *)
(* makes it; statements that touch only the thread's own descriptor are    *)
(* folded into the neighbouring shared access.  Memory is sequentially     *)
(* consistent.  The history variable hist records what the application     *)
(* could observe (accesses, commits) and never influences the algorithms.  *)
(***************************************************************************)
EXTENDS Integers, Sequences, FiniteSets, TLC

(***************************************************************************)
(* Bounds of the model.  The three timeouts are the source's tuning        *)
(* constants scaled down; MaxVersion caps the bytelock version counter,    *)
(* which the source lets grow without bound.                               *)
(***************************************************************************)
READ_TIMEOUT == 2
ACQUIRE_TIMEOUT == 2
DRAIN_TIMEOUT == 2
NumBuckets == 2
TxPerThread == 2
MaxVersion == 2 * TxPerThread + 2

Threads == {1, 2, 3}
Addrs == 0 .. NumBuckets
Buckets == 0 .. (NumBuckets - 1)

\* metadata.hpp: the lock bit of an id_version_t word (scaled down)
LockBit == 2 ^ 5
my_lock(t) == LockBit + t
IsLocked(v) == v >= LockBit

\* metadata.hpp: address -> bytelock / orec table slot
get_bytelock(a) == a % NumBuckets
get_nanorec(a) == a % NumBuckets

(***************************************************************************)
(* The application: each thread runs a fixed list of transactions, each a  *)
(* list of barrier calls, retrying a transaction until it commits.         *)
(* Addresses: 0 is A, 1 is B, 2 is C (C shares A's bucket when             *)
(* NumBuckets = 2).  "winc" writes the value last read plus one.           *)
(***************************************************************************)
Rd(a) == [op |-> "read", a |-> a, v |-> 0]
Wr(a, v) == [op |-> "write", a |-> a, v |-> v]
WInc(a) == [op |-> "winc", a |-> a, v |-> 0]
Rel(a) == [op |-> "release", a |-> a, v |-> 0]
RRes(a) == [op |-> "rres", a |-> a, v |-> 0]
WRes(a) == [op |-> "wres", a |-> a, v |-> 0]

Workloads == {"inc", "snap", "rrr", "undo", "skew", "relSame", "relDiff", "relW",
              "rwr", "inc3", "raw", "res", "two"}

Program(w, t) ==
  CASE w = "inc3" -> << <<Rd(0), WInc(0)>> >>
    [] t = 3 -> << >>
    [] w = "inc" -> [i \in 1 .. TxPerThread |-> <<Rd(0), WInc(0)>>]
    [] w = "snap" -> IF t = 1 THEN << <<Wr(0, 7), Wr(1, 9)>> >>
                              ELSE << <<Rd(0), Rd(1)>> >>
    [] w = "rrr" -> IF t = 1 THEN << <<Rd(0), Rd(1), Rd(2)>> >>
                             ELSE << <<Wr(0, 3)>> >>
    [] w = "undo" -> IF t = 1 THEN << <<Wr(0, 1), Wr(0, 2), Wr(1, 5)>> >>
                              ELSE << <<Rd(1), Rd(0)>> >>
    [] w = "skew" -> IF t = 1 THEN << <<Rd(0), Wr(1, 5)>> >>
                              ELSE << <<Rd(1), Wr(0, 3), Rd(0)>> >>
    [] w = "relSame" -> IF t = 1 THEN << <<Rd(0), Rel(0), Rd(NumBuckets)>> >>
                                 ELSE << <<Wr(0, 3)>>, <<Wr(0, 4)>> >>
    [] w = "relDiff" -> IF t = 1 THEN << <<Rd(0), Rel(0), Rd(1)>> >>
                                 ELSE << <<Wr(0, 3)>>, <<Wr(0, 4)>> >>
    [] w = "relW" -> IF t = 1 THEN << <<Rd(0), Rel(0), WInc(0)>> >>
                              ELSE << <<Wr(0, 3)>>, <<Wr(0, 4)>> >>
    [] w = "rwr" -> IF t = 1 THEN << <<Rd(0), Wr(1, 5), Rd(2)>> >>
                             ELSE << <<Wr(0, 3)>> >>
    [] w = "raw" -> IF t = 1 THEN << <<Wr(0, 1), Rd(0), Wr(0, 2), Rd(0)>> >>
                             ELSE << <<Wr(0, 3)>> >>
    [] w = "two" -> IF t = 1 THEN << <<Wr(0, 1), Wr(1, 2)>> >>
                             ELSE << <<Rd(0), Wr(0, 4), Wr(1, 3)>> >>
    [] w = "res" -> IF t = 1 THEN << <<WRes(0), WRes(1), WRes(0), Wr(1, 5)>> >>
                             ELSE << <<RRes(0), Rd(0), WRes(0), RRes(0), Rd(0), Rel(0)>> >>

\* early release and the reserve barriers exist only in ByteEager's dispatch
\* table; "raw" exercises the redo log, which only Nano has
AlgsFor(w) ==
  IF w \in {"relSame", "relDiff", "relW", "res"} THEN {"ByteEager"}
  ELSE IF w \in {"raw", "two"} THEN {"Nano"}
  ELSE {"ByteEager", "Nano"}

VARIABLES alg, wl, mem, bytelocks, orecs, tx, hist, seenFresh, scope, NDEBUG

vars == <<alg, wl, mem, bytelocks, orecs, tx, hist, seenFresh, scope, NDEBUG>>

CurTx(t) == Program(wl, t)[tx[t].txi]
HasOp(t) == tx[t].pc = "op" /\ tx[t].ip <= Len(CurTx(t))
AtEnd(t) == tx[t].pc = "op" /\ tx[t].ip > Len(CurTx(t))
CurOp(t) == CurTx(t)[tx[t].ip]
WriteVal(t) ==
  IF CurOp(t).op = "winc" THEN tx[t].regs[Len(tx[t].regs)] + 1 ELSE CurOp(t).v
IsWrite(t) == CurOp(t).op \in {"write", "winc"}

(***************************************************************************)
(* Initial state: zeroed global tables, freshly constructed descriptors    *)
(***************************************************************************)
InitTx(t) ==
  [pc |-> "begin", mode |-> "ro", txi |-> 1, ip |-> 1, regs |-> <<>>,
   tries |-> 0, idx |-> 0, ivt |-> 0, tmp |-> 0,
   r_bytelocks |-> <<>>, w_bytelocks |-> <<>>, undo_log |-> <<>>,
   nanorecs |-> <<>>, writes |-> <<>>, locks |-> <<>>]

\* Scope::Scope: a scope as constructed (no thrown object, empty lists)
InitScope ==
  [aborted |-> TRUE, thrown |-> <<0, 0>>, undo_on_rollback |-> <<>>,
   do_on_rollback |-> <<>>, do_on_commit |-> <<>>]

InitHist ==
  [cmem |-> [a \in Addrs |-> 0],
   active |-> [t \in Threads |-> FALSE],
   acc |-> [t \in Threads |-> {}],
   ovl |-> [t \in Threads |-> {}],
   staleRd |-> [t \in Threads |-> {}],
   rdStart |-> [t \in Threads |-> {}],
   drained |-> [t \in Threads |-> {}],
   released |-> [t \in Threads |-> {}],
   isoViol |-> FALSE, staleUpd |-> FALSE, dirtyRead |-> FALSE,
   staleRead |-> FALSE, staleSame |-> FALSE, staleReuse |-> FALSE,
   abortAt |-> [t \in Threads |-> ""],
   preLock |-> [o \in Buckets |-> 0]]

Init ==
  /\ wl \in Workloads
  /\ alg \in AlgsFor(wl)
  /\ mem = [a \in Addrs |-> 0]
  /\ bytelocks = [b \in Buckets |->
        [owner |-> 0, reader |-> [t \in Threads |-> 0], version |-> 0,
         reader_version |-> [t \in Threads |-> 0]]]
  /\ orecs = [b \in Buckets |-> [v |-> 0, p |-> 0]]
  /\ tx = [t \in Threads |->
             [InitTx(t) EXCEPT !.pc = IF Len(Program(wl, t)) = 0 THEN "done" ELSE "begin"]]
  /\ hist = InitHist
  /\ seenFresh = [t \in Threads |-> {}]
  /\ scope = InitScope
  /\ NDEBUG = FALSE

(***************************************************************************)
(* History bookkeeping                                                     *)
(***************************************************************************)
Conflict(s1, s2) ==
  \E x \in s1, y \in s2 : x[1] = y[1] /\ (x[2] = "w" \/ y[2] = "w")

\* a read barrier of t is entered: remember which of t's reads were already
\* overwritten by a committed transaction
HistStart(h, t) == [h EXCEPT !.rdStart[t] = h.staleRd[t]]

\* a read barrier of t returns v for address a
HistRead(h, t, a, v) ==
  [h EXCEPT !.acc[t] = @ \cup {<<a, "r">>},
            !.dirtyRead = @ \/ (v # h.cmem[a] /\ <<a, "w">> \notin h.acc[t]),
            !.staleRead = @ \/ h.rdStart[t] # {},
            !.staleSame = @ \/ (\E x \in h.rdStart[t] :
                                   get_bytelock(x) = get_bytelock(a))]

\* a write barrier of t returns
HistWrite(h, t, a) == [h EXCEPT !.acc[t] = @ \cup {<<a, "w">>}]

\* t's transaction becomes irrevocably committed; newval gives the value it
\* leaves in each word it wrote
HistCommit(t, newval) ==
  [hist EXCEPT
     !.cmem = [a \in Addrs |-> IF <<a, "w">> \in hist.acc[t] THEN newval[a] ELSE @[a]],
     !.active[t] = FALSE,
     !.ovl = [u \in Threads |->
                IF u # t /\ hist.active[u] THEN @[u] \cup hist.acc[t] ELSE @[u]],
     !.staleRd = [u \in Threads |->
                IF u # t /\ hist.active[u]
                THEN @[u] \cup {a \in Addrs : <<a, "r">> \in hist.acc[u]
                                             /\ <<a, "w">> \in hist.acc[t]}
                ELSE @[u]],
     !.isoViol = @ \/ Conflict(hist.acc[t], hist.ovl[t]),
     !.staleUpd = @ \/ (\E a \in hist.staleRd[t] :
                          /\ <<a, "w">> \in hist.acc[t]
                          /\ get_bytelock(a) \notin hist.released[t])]

\* where in its barrier t is when it calls tx->abort(): its position, with
\* the acquire step split into "CAS timed out" and "after the CAS"
AbortSite(t) ==
  IF tx[t].pc = "wr_cas" /\ bytelocks[get_bytelock(CurTx(t)[tx[t].ip].a)].owner = 0
  THEN "after_cas"
  ELSE tx[t].pc

HistAbort(h, t) == [h EXCEPT !.active[t] = FALSE, !.abortAt[t] = AbortSite(t)]

\* a barrier of t returns on bucket b, which t early-released in this
\* transaction, while the addresses in stale (read by t, then overwritten by
\* a committed transaction) include one of that bucket
HistReuse(h, t, b, stale) ==
  [h EXCEPT !.staleReuse = @ \/ (b \in h.released[t]
                                  /\ \E x \in stale : get_bytelock(x) = b)]

(***************************************************************************)
(* History of commit-time freshness: while t is past its lock acquisition  *)
(* in commit_rw, the read-set entries that have been seen to satisfy       *)
(* "o.v == v, or o.v == my_lock and o.p == v" in some state since then.    *)
(***************************************************************************)
Fresh(e, os, t) == os[e.o].v = e.v \/ (os[e.o].v = my_lock(t) /\ os[e.o].p = e.v)

Validating(me) == me.pc \in {"nc_val", "nc_wb"}

ObserveFresh ==
  seenFresh' = [t \in Threads |->
     IF Validating(tx'[t])
     THEN (IF Validating(tx[t]) THEN seenFresh[t] ELSE {})
          \cup {i \in 1 .. Len(tx'[t].nanorecs) : Fresh(tx'[t].nanorecs[i], orecs', t)}
     ELSE {}]

(***************************************************************************)
(* Transaction begin (ByteEager::begin, Nano::begin) and the driver's      *)
(* retry loop                                                              *)
(***************************************************************************)
Begin(t) ==
  /\ tx[t].pc = "begin"
  /\ tx' = [tx EXCEPT ![t].pc = "op", ![t].ip = 1, ![t].regs = <<>>]
  /\ hist' = [hist EXCEPT !.active[t] = TRUE, !.acc[t] = {}, !.ovl[t] = {},
                          !.staleRd[t] = {}, !.rdStart[t] = {},
                          !.released[t] = {}, !.abortAt[t] = ""]
  /\ UNCHANGED <<alg, wl, mem, bytelocks, orecs>>
  /\ ObserveFresh
  /\ UNCHANGED <<scope, NDEBUG>>

\* where a thread goes after its transaction committed
NextTx(me, w, t) ==
  [me EXCEPT !.txi = @ + 1,
             !.pc = IF me.txi + 1 > Len(Program(w, t)) THEN "done" ELSE "begin",
             !.ip = 1, !.mode = "ro", !.tries = 0, !.idx = 0]

\* the barrier returns to the application
Return(me) == [me EXCEPT !.pc = "op", !.ip = @ + 1, !.tries = 0, !.idx = 0]

\* variant: a first write that leaves the read-only barriers installed
OnFirstWrite_skip(me) == me

\* OnFirstWrite(tx, read_rw, write_rw, commit_rw): the thread's dispatch
\* pointers become the read-write variants
OnFirstWrite(me) == [me EXCEPT !.mode = "rw"]


(***************************************************************************)
(* ByteEager                                                               *)
(***************************************************************************)
BE == "ByteEager"

\* tx->abort() inside a ByteEager barrier: control goes to ByteEager::rollback
BEAbort(me) == [me EXCEPT !.pc = "rb_undo", !.tries = 0, !.idx = 0]

\* the barrier's "log this location if new" (r_bytelocks.insert under the
\* reader_version test)
LogReadLock(me, lock, b, t) ==
  IF lock.reader_version[t] = 0 THEN Append(me.r_bytelocks, b) ELSE me.r_bytelocks

\* variant: a reader that does not notice its own write lock
HaveWriteLock_never(lock, t) == FALSE

\* "do I have the write lock?" of read_rw and read_reserve
HaveWriteLock(lock, t) == lock.owner = t

\* read_ro, up to the read loop: the fast path returns *addr at once
ByteEager_read_ro(t) ==
  /\ alg = BE /\ HasOp(t) /\ CurOp(t).op = "read" /\ tx[t].mode = "ro"
  /\ LET a == CurOp(t).a
         b == get_bytelock(a)
         lock == bytelocks[b]
     IN IF lock.reader[t] = 1
        THEN /\ tx' = [tx EXCEPT ![t] = [Return(@) EXCEPT !.regs = Append(@, mem[a])]]
             /\ hist' = HistRead(HistStart(hist, t), t, a, mem[a])
        ELSE /\ tx' = [tx EXCEPT ![t].pc = "rd_set", ![t].tries = 0,
                                 ![t].r_bytelocks = LogReadLock(tx[t], lock, b, t)]
             /\ hist' = HistStart(hist, t)
  /\ UNCHANGED <<alg, wl, mem, bytelocks, orecs>>
  /\ ObserveFresh
  /\ UNCHANGED <<scope, NDEBUG>>

\* read_rw, up to the read loop: two fast paths (write lock, read lock)
ByteEager_read_rw(t) ==
  /\ alg = BE /\ HasOp(t) /\ CurOp(t).op = "read" /\ tx[t].mode = "rw"
  /\ LET a == CurOp(t).a
         b == get_bytelock(a)
         lock == bytelocks[b]
     IN IF HaveWriteLock(lock, t) \/ lock.reader[t] = 1
        THEN /\ tx' = [tx EXCEPT ![t] = [Return(@) EXCEPT !.regs = Append(@, mem[a])]]
             /\ hist' = HistRead(HistStart(hist, t), t, a, mem[a])
        ELSE /\ tx' = [tx EXCEPT ![t].pc = "rd_set", ![t].tries = 0,
                                 ![t].r_bytelocks = LogReadLock(tx[t], lock, b, t)]
             /\ hist' = HistStart(hist, t)
  /\ UNCHANGED <<alg, wl, mem, bytelocks, orecs>>
  /\ ObserveFresh
  /\ UNCHANGED <<scope, NDEBUG>>

\* read_reserve, up to the read loop: returns at once when the thread has
\* the write lock or a read lock
ByteEager_read_reserve(t) ==
  /\ alg = BE /\ HasOp(t) /\ CurOp(t).op = "rres"
  /\ LET b == get_bytelock(CurOp(t).a)
         lock == bytelocks[b]
     IN IF HaveWriteLock(lock, t) \/ lock.reader[t] = 1
        THEN tx' = [tx EXCEPT ![t] = Return(@)]
        ELSE tx' = [tx EXCEPT ![t].pc = "rd_set", ![t].tries = 0,
                              ![t].r_bytelocks = LogReadLock(tx[t], lock, b, t)]
  /\ UNCHANGED <<alg, wl, mem, bytelocks, orecs, hist>>
  /\ ObserveFresh
  /\ UNCHANGED <<scope, NDEBUG>>

\* the read loop: lock->set_read_byte(tx->id-1)
ByteEager_set_read_byte(t) ==
  /\ alg = BE /\ tx[t].pc = "rd_set"
  /\ LET b == get_bytelock(CurOp(t).a)
     IN bytelocks' = [bytelocks EXCEPT ![b].reader[t] = 1]
  /\ tx' = [tx EXCEPT ![t].pc = "rd_chk"]
  /\ UNCHANGED <<alg, wl, mem, orecs, hist>>
  /\ ObserveFresh
  /\ UNCHANGED <<scope, NDEBUG>>

\* variant: a read loop that never sees a writer
OwnerFree_always(lock) == TRUE

\* the read loop's test that nobody has the write lock
OwnerFree(lock) == lock.owner = 0

\* the read loop: test lock->owner == 0; when owned, drop the read byte
ByteEager_read_check_owner(t) ==
  /\ alg = BE /\ tx[t].pc = "rd_chk"
  /\ LET b == get_bytelock(CurOp(t).a)
     IN IF OwnerFree(bytelocks[b])
        THEN /\ tx' = [tx EXCEPT ![t].pc = "rd_ver"]
             /\ UNCHANGED bytelocks
        ELSE /\ bytelocks' = [bytelocks EXCEPT ![b].reader[t] = 0]
             /\ tx' = [tx EXCEPT ![t].pc = "rd_spin"]
  /\ UNCHANGED <<alg, wl, mem, orecs, hist>>
  /\ ObserveFresh
  /\ UNCHANGED <<scope, NDEBUG>>

\* the read loop: while (lock->owner != 0) if (++tries > READ_TIMEOUT) abort
ByteEager_read_spin(t) ==
  /\ alg = BE /\ tx[t].pc = "rd_spin"
  /\ LET b == get_bytelock(CurOp(t).a)
     IN IF bytelocks[b].owner # 0
        THEN IF tx[t].tries + 1 > READ_TIMEOUT
             THEN /\ tx' = [tx EXCEPT ![t] = BEAbort(@)]
                  /\ hist' = HistAbort(hist, t)
             ELSE /\ tx' = [tx EXCEPT ![t].tries = @ + 1]
                  /\ hist' = hist
        ELSE /\ tx' = [tx EXCEPT ![t].pc = "rd_set"]
             /\ hist' = hist
  /\ UNCHANGED <<alg, wl, mem, bytelocks, orecs>>
  /\ ObserveFresh
  /\ UNCHANGED <<scope, NDEBUG>>

\* where the read loop goes once the version test has passed: read_ro and
\* read_rw return *addr, read_reserve just returns
VersionPassed(me, op) ==
  IF op = "rres" THEN Return(me) ELSE [me EXCEPT !.pc = "rd_ret"]

\* the read loop: log the version on the first read, abort if it changed
ByteEager_read_version(t) ==
  /\ alg = BE /\ tx[t].pc = "rd_ver"
  /\ LET b == get_bytelock(CurOp(t).a)
         lock == bytelocks[b]
     IN IF lock.reader_version[t] = 0
        THEN /\ bytelocks' = [bytelocks EXCEPT ![b].reader_version[t] = lock.version]
             /\ tx' = [tx EXCEPT ![t] = VersionPassed(@, CurOp(t).op)]
             /\ hist' = hist
        ELSE IF lock.reader_version[t] # lock.version
        THEN /\ tx' = [tx EXCEPT ![t] = BEAbort(@)]
             /\ hist' = HistAbort(hist, t)
             /\ UNCHANGED bytelocks
        ELSE /\ tx' = [tx EXCEPT ![t] = VersionPassed(@, CurOp(t).op)]
             /\ UNCHANGED <<bytelocks, hist>>
  /\ UNCHANGED <<alg, wl, mem, orecs>>
  /\ ObserveFresh
  /\ UNCHANGED <<scope, NDEBUG>>

\* the read loop: return *addr
ByteEager_read_return(t) ==
  /\ alg = BE /\ tx[t].pc = "rd_ret"
  /\ LET a == CurOp(t).a
     IN /\ tx' = [tx EXCEPT ![t] = [Return(@) EXCEPT !.regs = Append(@, mem[a])]]
        /\ hist' = HistReuse(HistRead(hist, t, a, mem[a]), t, get_bytelock(a),
                              hist.rdStart[t])
  /\ UNCHANGED <<alg, wl, mem, bytelocks, orecs>>
  /\ ObserveFresh
  /\ UNCHANGED <<scope, NDEBUG>>

\* STM_DO_MASKED_WRITE with the undo-log insert before it (full-word mask)
InPlaceWrite(me, a, v) == [me EXCEPT !.undo_log = Append(@, <<a, mem[a]>>)]

\* write_ro: always goes for the lock
ByteEager_write_ro(t) ==
  /\ alg = BE /\ HasOp(t) /\ IsWrite(t) /\ tx[t].mode = "ro"
  /\ tx' = [tx EXCEPT ![t].pc = "wr_cas", ![t].tries = 0]
  /\ UNCHANGED <<alg, wl, mem, bytelocks, orecs, hist>>
  /\ ObserveFresh
  /\ UNCHANGED <<scope, NDEBUG>>

\* write_rw: in-place write when the lock is already mine, else go for it
ByteEager_write_rw(t) ==
  /\ alg = BE /\ HasOp(t) /\ IsWrite(t) /\ tx[t].mode = "rw"
  /\ LET a == CurOp(t).a
         b == get_bytelock(a)
     IN IF bytelocks[b].owner = t
        THEN /\ tx' = [tx EXCEPT ![t] = Return(InPlaceWrite(@, a, WriteVal(t)))]
             /\ mem' = [mem EXCEPT ![a] = WriteVal(t)]
             /\ hist' = HistWrite(hist, t, a)
        ELSE /\ tx' = [tx EXCEPT ![t].pc = "wr_cas", ![t].tries = 0]
             /\ UNCHANGED <<mem, hist>>
  /\ UNCHANGED <<alg, wl, bytelocks, orecs>>
  /\ ObserveFresh
  /\ UNCHANGED <<scope, NDEBUG>>

\* write_reserve, up to the acquire loop: when the lock is already mine only
\* the undo log grows
ByteEager_write_reserve(t) ==
  /\ alg = BE /\ HasOp(t) /\ CurOp(t).op = "wres"
  /\ LET a == CurOp(t).a
         b == get_bytelock(a)
     IN IF bytelocks[b].owner = t
        THEN tx' = [tx EXCEPT ![t] = Return(InPlaceWrite(@, a, mem[a]))]
        ELSE tx' = [tx EXCEPT ![t].pc = "wr_cas", ![t].tries = 0]
  /\ UNCHANGED <<alg, wl, mem, bytelocks, orecs, hist>>
  /\ ObserveFresh
  /\ UNCHANGED <<scope, NDEBUG>>

\* the version test a writer makes after it has the lock
WriterVersionStale(lock, t) ==
  lock.reader_version[t] # 0 /\ lock.reader_version[t] # lock.version

\* bcas32(&lock->owner, 0, tx->id) with its timeout; on success the lock is
\* logged, my read byte dropped and the recorded version compared
ByteEager_acquire(t) ==
  /\ alg = BE /\ tx[t].pc = "wr_cas"
  /\ LET b == get_bytelock(CurOp(t).a)
         lock == bytelocks[b]
     IN IF lock.owner = 0
        THEN /\ bytelocks' = [bytelocks EXCEPT ![b].owner = t, ![b].reader[t] = 0]
             /\ IF WriterVersionStale(lock, t)
                THEN /\ tx' = [tx EXCEPT ![t] =
                                 BEAbort([@ EXCEPT !.w_bytelocks = Append(@, b)])]
                     /\ hist' = HistAbort(hist, t)
                ELSE /\ tx' = [tx EXCEPT ![t].pc = "wr_drain", ![t].tries = 0,
                                         ![t].w_bytelocks = Append(@, b)]
                     /\ hist' = hist
        ELSE /\ UNCHANGED bytelocks
             /\ IF tx[t].tries + 1 > ACQUIRE_TIMEOUT
                THEN /\ tx' = [tx EXCEPT ![t] = BEAbort(@)]
                     /\ hist' = HistAbort(hist, t)
                ELSE /\ tx' = [tx EXCEPT ![t].tries = @ + 1]
                     /\ hist' = hist
  /\ UNCHANGED <<alg, wl, mem, orecs>>
  /\ ObserveFresh
  /\ UNCHANGED <<scope, NDEBUG>>

\* lock_alias[i]: the i-th 32-bit word of the reader array (four reader bytes)
lock_alias(lock, i) ==
  IF \E u \in Threads : (u - 1) \div 4 = i /\ lock.reader[u] # 0 THEN 1 ELSE 0

\* variant: a writer that does not wait for readers
ReadersPresent_none(lock) == FALSE

ReadersPresent(lock) == \E i \in 0 .. 15 : lock_alias(lock, i) # 0

\* the drain loop: wait, with timeout, until every reader word is zero
ByteEager_drain(t) ==
  /\ alg = BE /\ tx[t].pc = "wr_drain"
  /\ LET b == get_bytelock(CurOp(t).a)
     IN IF ReadersPresent(bytelocks[b])
        THEN IF tx[t].tries + 1 > DRAIN_TIMEOUT
             THEN /\ tx' = [tx EXCEPT ![t] = BEAbort(@)]
                  /\ hist' = HistAbort(hist, t)
             ELSE /\ tx' = [tx EXCEPT ![t].tries = @ + 1]
                  /\ hist' = hist
        ELSE /\ tx' = [tx EXCEPT ![t].pc = "wr_do", ![t].tries = 0]
             /\ hist' = [hist EXCEPT !.drained[t] = @ \cup {b}]
  /\ UNCHANGED <<alg, wl, mem, bytelocks, orecs>>
  /\ ObserveFresh
  /\ UNCHANGED <<scope, NDEBUG>>

\* variant: an acquisition that leaves the version alone
IncVersion_skip(v) == v

\* ++lock->version
IncVersion(v) == v + 1

\* variant: a write_reserve that never installs the read-write barriers
FirstWriteLock_never(me) == FALSE

\* write_reserve's test "tx->w_bytelocks.size() == 1"
FirstWriteLock(me) == Len(me.w_bytelocks) = 1

\* after the drain: ++lock->version, undo-log insert, then in write_ro and
\* write_rw the in-place write (and in write_ro OnFirstWrite, which write_rw
\* runs under); in write_reserve no write, and OnFirstWrite only when the
\* lock just logged is the only one
ByteEager_write_do(t) ==
  /\ alg = BE /\ tx[t].pc = "wr_do"
  /\ LET a == CurOp(t).a
         b == get_bytelock(a)
     IN /\ bytelocks[b].version < MaxVersion
        /\ bytelocks' = [bytelocks EXCEPT ![b].version = IncVersion(@)]
        /\ IF CurOp(t).op = "wres"
           THEN /\ tx' = [tx EXCEPT ![t] =
                            IF FirstWriteLock(@)
                            THEN OnFirstWrite(Return(InPlaceWrite(@, a, mem[a])))
                            ELSE Return(InPlaceWrite(@, a, mem[a]))]
                /\ UNCHANGED <<mem, hist>>
           ELSE /\ tx' = [tx EXCEPT ![t] =
                            OnFirstWrite(Return(InPlaceWrite(@, a, WriteVal(t))))]
                /\ mem' = [mem EXCEPT ![a] = WriteVal(t)]
                /\ hist' = HistReuse(HistWrite(hist, t, a), t, b, hist.staleRd[t])
  /\ UNCHANGED <<alg, wl, orecs>>
  /\ ObserveFresh
  /\ UNCHANGED <<scope, NDEBUG>>

\* release: early release of a read lock
ByteEager_release(t) ==
  /\ alg = BE /\ HasOp(t) /\ CurOp(t).op = "release"
  /\ LET b == get_bytelock(CurOp(t).a)
     IN bytelocks' = [bytelocks EXCEPT
          ![b].reader[t] = IF bytelocks[b].owner # t THEN 0 ELSE @]
  /\ tx' = [tx EXCEPT ![t] = Return(@)]
  /\ hist' = [hist EXCEPT !.released[t] = @ \cup {get_bytelock(CurOp(t).a)}]
  /\ UNCHANGED <<alg, wl, mem, orecs>>
  /\ ObserveFresh
  /\ UNCHANGED <<scope, NDEBUG>>

\* variant: read locks released without forgetting the recorded version
ReleaseReadLocks_keep_version(bl, rlist, t) ==
  [b \in Buckets |->
     IF \E i \in 1 .. Len(rlist) : rlist[i] = b
     THEN [bl[b] EXCEPT !.reader[t] = 0]
     ELSE bl[b]]

\* the "release read locks" loop shared by commit_ro, commit_rw and rollback
ReleaseReadLocks(bl, rlist, t) ==
  [b \in Buckets |->
     IF \E i \in 1 .. Len(rlist) : rlist[i] = b
     THEN [bl[b] EXCEPT !.reader[t] = 0, !.reader_version[t] = 0]
     ELSE bl[b]]

ResetLists(me) ==
  [me EXCEPT !.r_bytelocks = <<>>, !.w_bytelocks = <<>>, !.undo_log = <<>>]

ByteEager_commit_ro(t) ==
  /\ alg = BE /\ AtEnd(t) /\ tx[t].mode = "ro"
  /\ bytelocks' = ReleaseReadLocks(bytelocks, tx[t].r_bytelocks, t)
  /\ tx' = [tx EXCEPT ![t] = NextTx([@ EXCEPT !.r_bytelocks = <<>>], wl, t)]
  /\ hist' = HistCommit(t, mem)
  /\ UNCHANGED <<alg, wl, mem, orecs>>
  /\ ObserveFresh
  /\ UNCHANGED <<scope, NDEBUG>>

\* commit_rw is entered: from here the transaction cannot abort
ByteEager_commit_rw(t) ==
  /\ alg = BE /\ AtEnd(t) /\ tx[t].mode = "rw"
  /\ tx' = [tx EXCEPT ![t].pc = "c_relw", ![t].idx = 1]
  /\ hist' = HistCommit(t, mem)
  /\ UNCHANGED <<alg, wl, mem, bytelocks, orecs>>
  /\ ObserveFresh
  /\ UNCHANGED <<scope, NDEBUG>>

\* commit_rw: one write lock released per step, then the read locks and the
\* clean-up
ByteEager_commit_release(t) ==
  /\ alg = BE /\ tx[t].pc = "c_relw"
  /\ IF tx[t].idx <= Len(tx[t].w_bytelocks)
     THEN /\ bytelocks' = [bytelocks EXCEPT ![tx[t].w_bytelocks[tx[t].idx]].owner = 0]
          /\ tx' = [tx EXCEPT ![t].idx = @ + 1]
          /\ hist' = [hist EXCEPT !.drained[t] = @ \ {tx[t].w_bytelocks[tx[t].idx]}]
     ELSE /\ bytelocks' = ReleaseReadLocks(bytelocks, tx[t].r_bytelocks, t)
          /\ tx' = [tx EXCEPT ![t] = NextTx(ResetLists(@), wl, t)]
          /\ hist' = hist
  /\ UNCHANGED <<alg, wl, mem, orecs>>
  /\ ObserveFresh
  /\ UNCHANGED <<scope, NDEBUG>>

\* UndoLog::undo with exception == NULL: every entry, newest first
RECURSIVE UndoAll(_, _, _)
UndoAll(m, log, i) ==
  IF i = 0 THEN m ELSE UndoAll([m EXCEPT ![log[i][1]] = log[i][2]], log, i - 1)

\* variant: the log replayed oldest entry first
RECURSIVE UndoFwd(_, _, _)
UndoFwd(m, log, i) ==
  IF i > Len(log) THEN m ELSE UndoFwd([m EXCEPT ![log[i][1]] = log[i][2]], log, i + 1)

UndoLog_undo_oldest_first(m, log) == UndoFwd(m, log, 1)

UndoLog_undo(m, log) == UndoAll(m, log, Len(log))

\* rollback: STM_UNDO(tx->undo_log, except, len) with no thrown object
ByteEager_rollback(t) ==
  /\ alg = BE /\ tx[t].pc = "rb_undo"
  /\ mem' = UndoLog_undo(mem, tx[t].undo_log)
  /\ tx' = [tx EXCEPT ![t].pc = "rb_relw", ![t].idx = 1]
  /\ UNCHANGED <<alg, wl, bytelocks, orecs, hist>>
  /\ ObserveFresh
  /\ UNCHANGED <<scope, NDEBUG>>

\* rollback: one write lock released per step, then the read locks, the list
\* resets and PostRollback (back to the read-only barriers, retry)
ByteEager_rollback_release(t) ==
  /\ alg = BE /\ tx[t].pc = "rb_relw"
  /\ IF tx[t].idx <= Len(tx[t].w_bytelocks)
     THEN /\ bytelocks' = [bytelocks EXCEPT ![tx[t].w_bytelocks[tx[t].idx]].owner = 0]
          /\ tx' = [tx EXCEPT ![t].idx = @ + 1]
          /\ hist' = [hist EXCEPT !.drained[t] = @ \ {tx[t].w_bytelocks[tx[t].idx]}]
     ELSE /\ bytelocks' = ReleaseReadLocks(bytelocks, tx[t].r_bytelocks, t)
          /\ tx' = [tx EXCEPT ![t] = [ResetLists(@) EXCEPT !.pc = "begin",
                                        !.mode = "ro", !.idx = 0, !.tries = 0]]
          /\ hist' = hist
  /\ UNCHANGED <<alg, wl, mem, orecs>>
  /\ ObserveFresh
  /\ UNCHANGED <<scope, NDEBUG>>

ByteEagerStep(t) ==
  \/ ByteEager_read_ro(t)
  \/ ByteEager_read_rw(t)
  \/ ByteEager_read_reserve(t)
  \/ ByteEager_set_read_byte(t)
  \/ ByteEager_read_check_owner(t)
  \/ ByteEager_read_spin(t)
  \/ ByteEager_read_version(t)
  \/ ByteEager_read_return(t)
  \/ ByteEager_write_ro(t)
  \/ ByteEager_write_rw(t)
  \/ ByteEager_write_reserve(t)
  \/ ByteEager_acquire(t)
  \/ ByteEager_drain(t)
  \/ ByteEager_write_do(t)
  \/ ByteEager_release(t)
  \/ ByteEager_commit_ro(t)
  \/ ByteEager_commit_rw(t)
  \/ ByteEager_commit_release(t)
  \/ ByteEager_rollback(t)
  \/ ByteEager_rollback_release(t)

(***************************************************************************)
(* Nano                                                                    *)
(***************************************************************************)
NANO == "Nano"

\* tx->abort() inside a Nano barrier or commit: control goes to Nano::rollback
NanoAbort(me) == [me EXCEPT !.pc = "nrb", !.idx = 1, !.ivt = 0, !.tmp = 0]

\* WriteSet::find: the index of the entry for address a, 0 when absent
WriteSet_find(ws, a) ==
  IF \E i \in 1 .. Len(ws) : ws[i][1] = a
  THEN CHOOSE i \in 1 .. Len(ws) : ws[i][1] = a
  ELSE 0

\* WriteSet::insert: replace the value in place when the address is present,
\* append otherwise
WriteSet_insert(ws, a, v) ==
  IF WriteSet_find(ws, a) # 0
  THEN [ws EXCEPT ![WriteSet_find(ws, a)] = <<a, v>>]
  ELSE Append(ws, <<a, v>>)

\* REDO_RAW_CLEANUP for a full-word mask: a write-set hit replaces the value
\* read_ro returned
REDO_RAW_CLEANUP(val, ws, a) ==
  IF WriteSet_find(ws, a) # 0 THEN ws[WriteSet_find(ws, a)][2] ELSE val

\* read_ro: sample the orec (first statement of the loop body)
Nano_read_ro(t) ==
  /\ alg = NANO
  /\ \/ HasOp(t) /\ CurOp(t).op = "read" /\ tx[t].mode = "ro"
     \/ tx[t].pc = "n_ivt"
  /\ tx' = [tx EXCEPT ![t].pc = "n_tmp",
                      ![t].ivt = orecs[get_nanorec(CurOp(t).a)].v]
  /\ hist' = IF tx[t].pc = "op" THEN HistStart(hist, t) ELSE hist
  /\ UNCHANGED <<alg, wl, mem, bytelocks, orecs>>
  /\ ObserveFresh
  /\ UNCHANGED <<scope, NDEBUG>>

\* read_rw: probe the write set, then reuse read_ro
Nano_read_rw(t) ==
  /\ alg = NANO /\ HasOp(t) /\ CurOp(t).op = "read" /\ tx[t].mode = "rw"
  /\ tx' = [tx EXCEPT ![t].pc = "n_ivt"]
  /\ hist' = HistStart(hist, t)
  /\ UNCHANGED <<alg, wl, mem, bytelocks, orecs>>
  /\ ObserveFresh
  /\ UNCHANGED <<scope, NDEBUG>>

\* read_ro: tmp = *addr
Nano_read_location(t) ==
  /\ alg = NANO /\ tx[t].pc = "n_tmp"
  /\ tx' = [tx EXCEPT ![t].pc = "n_ivt2", ![t].tmp = mem[CurOp(t).a]]
  /\ UNCHANGED <<alg, wl, mem, bytelocks, orecs, hist>>
  /\ ObserveFresh
  /\ UNCHANGED <<scope, NDEBUG>>

\* variant: a read that accepts a locked or changing orec
ValidRead_always(ivt, ivt2) == TRUE

\* read_ro's "common case: valid read" test on the two orec samples
ValidRead(ivt, ivt2) == ivt = ivt2 /\ ~IsLocked(ivt)

\* read_ro: re-read the orec; a valid read is logged, anything else retries
\* (after spin64() when the orec is locked): the loop has no other exit
Nano_read_recheck(t) ==
  /\ alg = NANO /\ tx[t].pc = "n_ivt2"
  /\ LET o == get_nanorec(CurOp(t).a)
         ivt2 == orecs[o].v
     IN IF ValidRead(tx[t].ivt, ivt2)
        THEN tx' = [tx EXCEPT ![t].pc = "n_val", ![t].idx = 1,
                              ![t].nanorecs = Append(@, [o |-> o, v |-> ivt2])]
        ELSE tx' = [tx EXCEPT ![t].pc = "n_ivt", ![t].ivt = 0, ![t].tmp = 0]
  /\ UNCHANGED <<alg, wl, mem, bytelocks, orecs, hist>>
  /\ ObserveFresh
  /\ UNCHANGED <<scope, NDEBUG>>

\* variant: a revalidation that accepts every read-set entry
ReadEntryValid_always(e, os) == TRUE

\* the test read_ro makes of one read-set entry
ReadEntryValid(e, os) == os[e.o].v = e.v

\* read_ro: validate the whole read set, one entry per step, then return
Nano_read_validate(t) ==
  /\ alg = NANO /\ tx[t].pc = "n_val"
  /\ LET a == CurOp(t).a
         e == tx[t].nanorecs[tx[t].idx]
         \* read_ro returns tmp; under read_rw the caller then merges the
         \* write-set hit into it
         val == IF tx[t].mode = "rw"
                THEN REDO_RAW_CLEANUP(tx[t].tmp, tx[t].writes, a)
                ELSE tx[t].tmp
     IN IF ~ReadEntryValid(e, orecs)
        THEN /\ tx' = [tx EXCEPT ![t] = NanoAbort(@)]
             /\ hist' = HistAbort(hist, t)
        ELSE IF tx[t].idx < Len(tx[t].nanorecs)
        THEN /\ tx' = [tx EXCEPT ![t].idx = @ + 1]
             /\ hist' = hist
        ELSE /\ tx' = [tx EXCEPT ![t] = [Return(@) EXCEPT !.regs = Append(@, val),
                                           !.ivt = 0, !.tmp = 0]]
             /\ hist' = HistRead(hist, t, a, val)
  /\ UNCHANGED <<alg, wl, mem, bytelocks, orecs>>
  /\ ObserveFresh
  /\ UNCHANGED <<scope, NDEBUG>>

\* write_ro: add to the redo log, OnFirstWrite
Nano_write_ro(t) ==
  /\ alg = NANO /\ HasOp(t) /\ IsWrite(t) /\ tx[t].mode = "ro"
  /\ tx' = [tx EXCEPT ![t] = OnFirstWrite([Return(@) EXCEPT
               !.writes = WriteSet_insert(@, CurOp(t).a, WriteVal(t))])]
  /\ hist' = HistWrite(hist, t, CurOp(t).a)
  /\ UNCHANGED <<alg, wl, mem, bytelocks, orecs>>
  /\ ObserveFresh
  /\ UNCHANGED <<scope, NDEBUG>>

\* write_rw: add to the redo log
Nano_write_rw(t) ==
  /\ alg = NANO /\ HasOp(t) /\ IsWrite(t) /\ tx[t].mode = "rw"
  /\ tx' = [tx EXCEPT ![t] = [Return(@) EXCEPT
               !.writes = WriteSet_insert(@, CurOp(t).a, WriteVal(t))]]
  /\ hist' = HistWrite(hist, t, CurOp(t).a)
  /\ UNCHANGED <<alg, wl, mem, bytelocks, orecs>>
  /\ ObserveFresh
  /\ UNCHANGED <<scope, NDEBUG>>

Nano_commit_ro(t) ==
  /\ alg = NANO /\ AtEnd(t) /\ tx[t].mode = "ro"
  /\ tx' = [tx EXCEPT ![t] = NextTx([@ EXCEPT !.nanorecs = <<>>], wl, t)]
  /\ hist' = HistCommit(t, mem)
  /\ UNCHANGED <<alg, wl, mem, bytelocks, orecs>>
  /\ ObserveFresh
  /\ UNCHANGED <<scope, NDEBUG>>

\* commit_rw is entered
Nano_commit_rw(t) ==
  /\ alg = NANO /\ AtEnd(t) /\ tx[t].mode = "rw"
  /\ tx' = [tx EXCEPT ![t].pc = "nc_lock", ![t].idx = 1]
  /\ UNCHANGED <<alg, wl, mem, bytelocks, orecs, hist>>
  /\ ObserveFresh
  /\ UNCHANGED <<scope, NDEBUG>>

\* the value each word holds once the redo log has been written back
WriteSet_final(ws, m) ==
  [a \in Addrs |-> IF WriteSet_find(ws, a) # 0 THEN ws[WriteSet_find(ws, a)][2] ELSE m[a]]

\* commit_rw, after the lock taken (or skipped) for write-set entry idx: the
\* next entry, or the validation loop, or (empty read set) the writeback
AfterLock(me) ==
  IF me.idx < Len(me.writes) THEN [me EXCEPT !.pc = "nc_lock", !.idx = @ + 1, !.ivt = 0]
  ELSE IF me.nanorecs # <<>> THEN [me EXCEPT !.pc = "nc_val", !.idx = 1, !.ivt = 0]
  ELSE [me EXCEPT !.pc = "nc_wb", !.idx = 1, !.ivt = 0]

\* commit_rw, acquire loop: ivt.all = o->v.all and the tests on it
Nano_commit_read_orec(t) ==
  /\ alg = NANO /\ tx[t].pc = "nc_lock"
  /\ LET o == get_nanorec(tx[t].writes[tx[t].idx][1])
         ivt == orecs[o].v
     IN IF ivt = my_lock(t)
        THEN /\ tx' = [tx EXCEPT ![t] = AfterLock(@)]
             /\ hist' = IF AfterLock(tx[t]).pc = "nc_wb"
                        THEN HistCommit(t, WriteSet_final(tx[t].writes, mem))
                        ELSE hist
        ELSE IF ~IsLocked(ivt)
        THEN /\ tx' = [tx EXCEPT ![t].pc = "nc_cas", ![t].ivt = ivt]
             /\ hist' = hist
        ELSE /\ tx' = [tx EXCEPT ![t] = NanoAbort(@)]
             /\ hist' = HistAbort(hist, t)
  /\ UNCHANGED <<alg, wl, mem, bytelocks, orecs>>
  /\ ObserveFresh
  /\ UNCHANGED <<scope, NDEBUG>>

\* variant: a lock acquisition that does not save the old version
LockOrec_keep_p(orec, t, ivt) == [orec EXCEPT !.v = my_lock(t)]

\* the orec after a successful bcasptr(&o->v.all, ivt.all, my_lock) and
\* o->p = ivt.all
LockOrec(orec, t, ivt) == [v |-> my_lock(t), p |-> ivt]

\* commit_rw, acquire loop: bcasptr(&o->v.all, ivt.all, my_lock), o->p = ivt.all,
\* locks.insert(o)
Nano_commit_cas(t) ==
  /\ alg = NANO /\ tx[t].pc = "nc_cas"
  /\ LET o == get_nanorec(tx[t].writes[tx[t].idx][1])
     IN IF orecs[o].v = tx[t].ivt
        THEN /\ orecs' = [orecs EXCEPT ![o] = LockOrec(@, t, tx[t].ivt)]
             /\ tx' = [tx EXCEPT ![t] = AfterLock([@ EXCEPT !.locks = Append(@, o)])]
             /\ hist' = [(IF AfterLock(tx[t]).pc = "nc_wb"
                          THEN HistCommit(t, WriteSet_final(tx[t].writes, mem))
                          ELSE hist) EXCEPT !.preLock[o] = orecs[o].v]
        ELSE /\ tx' = [tx EXCEPT ![t] = NanoAbort(@)]
             /\ hist' = HistAbort(hist, t)
             /\ UNCHANGED orecs
  /\ UNCHANGED <<alg, wl, mem, bytelocks>>
  /\ ObserveFresh
  /\ UNCHANGED <<scope, NDEBUG>>

\* variant: a commit-time validation that accepts every read-set entry
CommitEntryValid_always(e, os, t) == TRUE

\* the test commit_rw makes of one read-set entry while it holds its locks
CommitEntryValid(e, os, t) ==
  ~((os[e.o].v # e.v) /\ ((os[e.o].v # my_lock(t)) \/ (e.v # os[e.o].p)))

\* commit_rw: validate the read set, one entry per step
Nano_commit_validate(t) ==
  /\ alg = NANO /\ tx[t].pc = "nc_val"
  /\ LET e == tx[t].nanorecs[tx[t].idx]
     IN IF ~CommitEntryValid(e, orecs, t)
        THEN /\ tx' = [tx EXCEPT ![t] = NanoAbort(@)]
             /\ hist' = HistAbort(hist, t)
        ELSE IF tx[t].idx < Len(tx[t].nanorecs)
        THEN /\ tx' = [tx EXCEPT ![t].idx = @ + 1]
             /\ hist' = hist
        ELSE /\ tx' = [tx EXCEPT ![t].pc = "nc_wb", ![t].idx = 1]
             /\ hist' = HistCommit(t, WriteSet_final(tx[t].writes, mem))
  /\ UNCHANGED <<alg, wl, mem, bytelocks, orecs>>
  /\ ObserveFresh
  /\ UNCHANGED <<scope, NDEBUG>>

\* commit_rw: tx->writes.writeback(), one entry per step, in list order
Nano_commit_writeback(t) ==
  /\ alg = NANO /\ tx[t].pc = "nc_wb"
  /\ LET w == tx[t].writes[tx[t].idx]
     IN mem' = [mem EXCEPT ![w[1]] = w[2]]
  /\ tx' = IF tx[t].idx < Len(tx[t].writes)
           THEN [tx EXCEPT ![t].idx = @ + 1]
           ELSE [tx EXCEPT ![t].pc = "nc_rel", ![t].idx = 1]
  /\ UNCHANGED <<alg, wl, bytelocks, orecs, hist>>
  /\ ObserveFresh
  /\ UNCHANGED <<scope, NDEBUG>>

NanoReset(me) == [me EXCEPT !.nanorecs = <<>>, !.writes = <<>>, !.locks = <<>>]

\* variant: a commit that releases its locks without a new version
CommitVersion_same(orec) == orec.p

\* the version commit_rw releases an orec with: (*i)->p + 1
CommitVersion(orec) == orec.p + 1

\* commit_rw: release locks ((*i)->v.all = (*i)->p + 1), then the clean-up
Nano_commit_release(t) ==
  /\ alg = NANO /\ tx[t].pc = "nc_rel"
  /\ LET o == tx[t].locks[tx[t].idx]
     IN orecs' = [orecs EXCEPT ![o].v = CommitVersion(orecs[o])]
  /\ tx' = IF tx[t].idx < Len(tx[t].locks)
           THEN [tx EXCEPT ![t].idx = @ + 1]
           ELSE [tx EXCEPT ![t] = NextTx(NanoReset(@), wl, t)]
  /\ UNCHANGED <<alg, wl, mem, bytelocks, hist>>
  /\ ObserveFresh
  /\ UNCHANGED <<scope, NDEBUG>>

\* variant: a rollback that writes the redo log back whatever len is
WriteSet_rollback_words_all(m, ws, exception, len) == WriteSet_final(ws, m)

\* WriteSet::rollback(exception, len) on full-word entries: nothing when
\* len is 0, else the entries inside [exception, exception + len)
WriteSet_rollback_words(m, ws, exception, len) ==
  IF len = 0 THEN m
  ELSE [a \in DOMAIN m |->
          IF WriteSet_find(ws, a) # 0 /\ a >= exception /\ a < exception + len
          THEN ws[WriteSet_find(ws, a)][2]
          ELSE m[a]]

\* rollback with no thrown object: STM_ROLLBACK(tx->writes, NULL, 0) (with
\* the first step), restore the version of every held orec, reset the
\* lists, PostRollback
Nano_rollback(t) ==
  /\ alg = NANO /\ tx[t].pc = "nrb"
  /\ mem' = IF tx[t].idx = 1
            THEN WriteSet_rollback_words(mem, tx[t].writes, 0, 0)
            ELSE mem
  /\ IF tx[t].idx <= Len(tx[t].locks)
     THEN /\ orecs' = [orecs EXCEPT ![tx[t].locks[tx[t].idx]].v =
                                       orecs[tx[t].locks[tx[t].idx]].p]
          /\ tx' = [tx EXCEPT ![t].idx = @ + 1]
     ELSE /\ tx' = [tx EXCEPT ![t] = [NanoReset(@) EXCEPT !.pc = "begin",
                                        !.mode = "ro", !.idx = 0]]
          /\ UNCHANGED orecs
  /\ UNCHANGED <<alg, wl, bytelocks, hist>>
  /\ ObserveFresh
  /\ UNCHANGED <<scope, NDEBUG>>

NanoStep(t) ==
  \/ Nano_read_ro(t)
  \/ Nano_read_rw(t)
  \/ Nano_read_location(t)
  \/ Nano_read_recheck(t)
  \/ Nano_read_validate(t)
  \/ Nano_write_ro(t)
  \/ Nano_write_rw(t)
  \/ Nano_commit_ro(t)
  \/ Nano_commit_rw(t)
  \/ Nano_commit_read_orec(t)
  \/ Nano_commit_cas(t)
  \/ Nano_commit_validate(t)
  \/ Nano_commit_writeback(t)
  \/ Nano_commit_release(t)
  \/ Nano_rollback(t)

Next == \E t \in Threads : Begin(t) \/ ByteEagerStep(t) \/ NanoStep(t)

Spec == Init /\ [][Next]_vars

AllDone == \A t \in Threads : tx[t].pc = "done"

\* the number of transactions the workload commits
NumTx == Len(Program(wl, 1)) + Len(Program(wl, 2)) + Len(Program(wl, 3))

(***************************************************************************)
(* Cancel-and-throw.  One transaction of thread Thrower, with byte         *)
(* logging (STM_WS_BYTELOG) and STM_ABORT_ON_THROW: masked writes, a       *)
(* thrown-object range registered on the scope, then a cancel that runs    *)
(* the algorithm's rollback with that range.  In this specification mem    *)
(* is indexed by byte address, hist.cmem is memory as it was before the    *)
(* transaction and hist.view is memory as the transaction sees it.         *)
(* Word w occupies the byte addresses w * WordBytes .. w * WordBytes +     *)
(* WordBytes - 1; the k-th write barrier stores the byte value k.          *)
(***************************************************************************)
WordBytes == 2

\* conflict aborts injected into one run of the cancel-and-throw model
MaxAborts == 1

Thrower == CHOOSE t \in Threads : \A u \in Threads : t <= u
Words == {1, 2}
WriteIds == {1, 2}
ByteIdx == 0 .. (WordBytes - 1)
ByteAddr(w, i) == w * WordBytes + i
ByteAddrs == {ByteAddr(w, i) : w \in Words, i \in ByteIdx}
Masks == [ByteIdx -> {0, 1}] \ {[i \in ByteIdx |-> 0]}

\* the ranges (exception, len) a scope may register: any byte range that
\* starts at most one byte before the words and ends at most one byte after
ThrownRanges ==
  {<<lo, up - lo>> : lo \in ByteAddrs \cup {a - 1 : a \in ByteAddrs},
                     up \in ByteAddrs \cup {a + 1 : a \in ByteAddrs}}
    \cap (Nat \X Nat)

\* the word at w, as its bytes
Word(m, w) == [i \in ByteIdx |-> m[ByteAddr(w, i)]]

\* STM_DO_MASKED_WRITE / an entry's writeback: store the bytes the mask selects
MaskedWrite(m, w, val, mask) ==
  [b \in DOMAIN m |->
     IF \E i \in ByteIdx : b = ByteAddr(w, i) /\ mask[i] = 1
     THEN val[CHOOSE i \in ByteIdx : b = ByteAddr(w, i)]
     ELSE m[b]]

\* ByteLoggingUndoLogEntry::undo
UndoLogEntry_undo(m, e) == MaskedWrite(m, e.addr, e.val, e.mask)

\* variant: a slow path that takes every intersection to be total
filterSlow_total(e, lower, upper) == [skip |-> TRUE, e |-> e]

\* variant: a slow path without the per-byte loop
filterSlow_no_loop(e, lower, upper) ==
  [skip |-> ByteAddr(e.addr, 0) >= lower /\ ByteAddr(e.addr, 0) + WordBytes < upper,
   e |-> e]

\* variant: a per-byte loop that takes upper to be the last protected byte
filterSlow_inclusive(e, lower, upper) ==
  IF ByteAddr(e.addr, 0) >= lower /\ ByteAddr(e.addr, 0) + WordBytes < upper
  THEN [skip |-> TRUE, e |-> e]
  ELSE LET mask == [i \in ByteIdx |->
                      IF ByteAddr(e.addr, i) >= lower /\ ByteAddr(e.addr, i) <= upper
                      THEN 0 ELSE e.mask[i]]
       IN [skip |-> \A i \in ByteIdx : mask[i] = 0, e |-> [e EXCEPT !.mask = mask]]

\* ByteLoggingUndoLogEntry::filterSlow: the entry is skipped when the word
\* lies inside the range; else the mask bytes inside the range are cleared
\* and the entry is skipped when no mask byte is left
filterSlow(e, lower, upper) ==
  IF ByteAddr(e.addr, 0) >= lower /\ ByteAddr(e.addr, 0) + WordBytes < upper
  THEN [skip |-> TRUE, e |-> e]
  ELSE LET mask == [i \in ByteIdx |->
                      IF ByteAddr(e.addr, i) >= lower /\ ByteAddr(e.addr, i) < upper
                      THEN 0 ELSE e.mask[i]]
       IN [skip |-> \A i \in ByteIdx : mask[i] = 0, e |-> [e EXCEPT !.mask = mask]]

\* ByteLoggingUndoLogEntry::filter: fast path when there is no intersection
filter(e, lower, upper) ==
  IF ByteAddr(e.addr, 0) + WordBytes < lower \/ ByteAddr(e.addr, 0) >= upper
  THEN [skip |-> FALSE, e |-> e]
  ELSE filterSlow(e, lower, upper)

\* UndoLog::undo(exception, len) over byte-logging entries, newest first
RECURSIVE UndoFiltered(_, _, _, _, _)
UndoFiltered(m, log, i, exception, upper) ==
  IF i = 0 THEN m
  ELSE LET f == filter(log[i], exception, upper)
       IN UndoFiltered(IF f.skip THEN m ELSE UndoLogEntry_undo(m, f.e),
                       log, i - 1, exception, upper)

RECURSIVE UndoEvery(_, _, _)
UndoEvery(m, log, i) ==
  IF i = 0 THEN m ELSE UndoEvery(UndoLogEntry_undo(m, log[i]), log, i - 1)

UndoLog_undo_exception(m, log, exception, len) ==
  IF exception = 0
  THEN UndoEvery(m, log, Len(log))
  ELSE UndoFiltered(m, log, Len(log), exception, exception + len)

\* WriteSet::insert with byte masks: a hit merges the new bytes and masks
\* into the entry, a miss appends
WriteSet_insert_bytes(ws, e) ==
  IF \E k \in 1 .. Len(ws) : ws[k].addr = e.addr
  THEN LET k == CHOOSE k \in 1 .. Len(ws) : ws[k].addr = e.addr
       IN [ws EXCEPT ![k] =
             [addr |-> e.addr,
              val |-> [i \in ByteIdx |-> IF e.mask[i] = 1 THEN e.val[i] ELSE ws[k].val[i]],
              mask |-> [i \in ByteIdx |-> IF e.mask[i] = 1 THEN 1 ELSE ws[k].mask[i]]]]
  ELSE Append(ws, e)

\* ByteLoggingWriteSetEntry::rollback: write back the logged bytes that lie
\* in the exception range
WriteSetEntry_rollback(m, e, lower, upper) ==
  MaskedWrite(m, e.addr, e.val,
              [i \in ByteIdx |->
                 IF e.mask[i] = 1 /\ ByteAddr(e.addr, i) >= lower
                                  /\ ByteAddr(e.addr, i) < upper
                 THEN 1 ELSE 0])

\* variant: a rollback that leaves without writing whenever called
WriteSet_rollback_never(m, ws, exception, len) == m

\* WriteSet::rollback(exception, len)
RECURSIVE RollbackEntries(_, _, _, _, _)
RollbackEntries(m, ws, i, exception, upper) ==
  IF i > Len(ws) THEN m
  ELSE RollbackEntries(WriteSetEntry_rollback(m, ws[i], exception, upper),
                       ws, i + 1, exception, upper)

WriteSet_rollback(m, ws, exception, len) ==
  IF len = 0 THEN m ELSE RollbackEntries(m, ws, 1, exception, exception + len)

\* hist.last names the last operation on the transaction or its scope;
\* hist.set is the range of the last setThrownObject call that stored
\* ((0, 0) after a clear) and hist.nset the number of calls that stored
\* since the scope was last without a thrown object

InitThrow ==
  /\ wl = "throw"
  /\ alg \in {BE, NANO}
  /\ mem = [b \in ByteAddrs |-> 0]
  /\ bytelocks = [b \in Buckets |->
        [owner |-> 0, reader |-> [t \in Threads |-> 0], version |-> 0,
         reader_version |-> [t \in Threads |-> 0]]]
  /\ orecs = [b \in Buckets |-> [v |-> 0, p |-> 0]]
  /\ tx = [t \in Threads |-> [InitTx(t) EXCEPT !.pc = IF t = Thrower THEN "op" ELSE "done"]]
  /\ hist = [cmem |-> [b \in ByteAddrs |-> 0], view |-> [b \in ByteAddrs |-> 0],
             last |-> "init", aborts |-> 0, set |-> <<0, 0>>, nset |-> 0]
  /\ seenFresh = [t \in Threads |-> {}]
  /\ scope = [InitScope EXCEPT !.aborted = FALSE]
  /\ NDEBUG = FALSE

CanWrite(t) == tx[t].pc = "op" /\ tx[t].ip \in WriteIds

\* the value stored by t's next write barrier
NextVal(t) == [i \in ByteIdx |-> tx[t].ip]

\* ByteEager::write_ro / write_rw without contention: take (or already
\* hold) the write lock, ++version on a fresh acquire, log the old word with
\* the mask, masked write in place
ByteEager_write_masked(t, w, mask) ==
  /\ alg = BE /\ CanWrite(t)
  /\ LET b == get_bytelock(w)
         mine == bytelocks[b].owner = t
     IN /\ bytelocks' = [bytelocks EXCEPT
             ![b].owner = t,
             ![b].reader[t] = 0,
             ![b].version = IF mine THEN @ ELSE @ + 1]
        /\ tx' = [tx EXCEPT
             ![t].w_bytelocks = IF mine THEN @ ELSE Append(@, b),
             ![t].undo_log = Append(@, [addr |-> w, val |-> Word(mem, w), mask |-> mask]),
             ![t].mode = "rw",
             ![t].ip = @ + 1]
  /\ mem' = MaskedWrite(mem, w, NextVal(t), mask)
  /\ hist' = [hist EXCEPT !.view = MaskedWrite(@, w, NextVal(t), mask), !.last = "write"]
  /\ UNCHANGED <<alg, wl, orecs, seenFresh, scope, NDEBUG>>

\* Nano::write_ro / write_rw: add to the redo log
Nano_write_masked(t, w, mask) ==
  /\ alg = NANO /\ CanWrite(t)
  /\ tx' = [tx EXCEPT
       ![t].writes = WriteSet_insert_bytes(@, [addr |-> w, val |-> NextVal(t), mask |-> mask]),
       ![t].mode = "rw",
       ![t].ip = @ + 1]
  /\ hist' = [hist EXCEPT !.view = MaskedWrite(@, w, NextVal(t), mask), !.last = "write"]
  /\ UNCHANGED <<alg, wl, mem, bytelocks, orecs, seenFresh, scope, NDEBUG>>

\* variant: a setThrownObject that takes every scope to be without a range
NoThrownObject_always(s) == TRUE

\* the condition setThrownObject asserts: thrown_.first == NULL
NoThrownObject(s) == s.thrown[1] = 0

\* Scope::setThrownObject: at most one thrown object per scope.  The
\* precondition is an assert: with assertions compiled in, a second call
\* ends the process; with NDEBUG the assert is gone and the call stores.
Scope_setThrownObject(t, addr, length) ==
  /\ tx[t].pc = "op"
  /\ IF NoThrownObject(scope) \/ NDEBUG
     THEN /\ scope' = [scope EXCEPT !.thrown = <<addr, length>>]
          /\ tx' = tx
          /\ hist' = [hist EXCEPT !.last = "scope", !.set = <<addr, length>>,
                                  !.nset = IF @ < 2 THEN @ + 1 ELSE @]
     ELSE /\ tx' = [tx EXCEPT ![t].pc = "fatal"]
          /\ scope' = scope
          /\ hist' = [hist EXCEPT !.last = "set_refused"]
  /\ UNCHANGED <<alg, wl, mem, bytelocks, orecs, seenFresh, NDEBUG>>

\* variant: a clear that leaves the range in place
clearThrownObject_keep(s) == s

\* Scope::clearThrownObject: thrown_.reset()
clearThrownObject(s) == [s EXCEPT !.thrown = <<0, 0>>]

Scope_clearThrownObject(t) ==
  /\ tx[t].pc = "op"
  /\ scope' = clearThrownObject(scope)
  /\ hist' = [hist EXCEPT !.last = "scope", !.set = <<0, 0>>, !.nset = 0]
  /\ UNCHANGED <<alg, wl, mem, bytelocks, orecs, tx, seenFresh, NDEBUG>>

\* the write locks of w_bytelocks, then the read locks of r_bytelocks,
\* released as ByteEager::rollback releases them
ByteEager_unlock(bl, me, t) ==
  ReleaseReadLocks(
    [b \in Buckets |->
       IF \E i \in 1 .. Len(me.w_bytelocks) : me.w_bytelocks[i] = b
       THEN [bl[b] EXCEPT !.owner = 0] ELSE bl[b]],
    me.r_bytelocks, t)

\* the orecs of tx->locks with their versions restored, as Nano::rollback
\* restores them
Nano_unlock(os, me) ==
  [b \in Buckets |->
     IF \E i \in 1 .. Len(me.locks) : me.locks[i] = b
     THEN [os[b] EXCEPT !.v = os[b].p] ELSE os[b]]

\* ByteEager::rollback(tx, except, len) on cancel
ByteEager_rollback_thrown(t) ==
  /\ alg = BE /\ tx[t].pc = "op"
  /\ mem' = UndoLog_undo_exception(mem, tx[t].undo_log, scope.thrown[1], scope.thrown[2])
  /\ bytelocks' = ByteEager_unlock(bytelocks, tx[t], t)
  /\ tx' = [tx EXCEPT ![t] = [ResetLists(@) EXCEPT !.pc = "done", !.mode = "ro"]]
  /\ hist' = [hist EXCEPT !.last = "cancel"]
  /\ UNCHANGED <<alg, wl, orecs, seenFresh, scope, NDEBUG>>

\* Nano::rollback(tx, except, len) on cancel
Nano_rollback_thrown(t) ==
  /\ alg = NANO /\ tx[t].pc = "op"
  /\ mem' = WriteSet_rollback(mem, tx[t].writes, scope.thrown[1], scope.thrown[2])
  /\ orecs' = Nano_unlock(orecs, tx[t])
  /\ tx' = [tx EXCEPT ![t] = [NanoReset(@) EXCEPT !.pc = "done", !.mode = "ro"]]
  /\ hist' = [hist EXCEPT !.last = "cancel"]
  /\ UNCHANGED <<alg, wl, bytelocks, seenFresh, scope, NDEBUG>>

\* Transaction::restart at the top scope: the algorithm's rollback with the
\* range the scope holds, Scope::enter (thrown cleared, aborted = false),
\* and the jump to the checkpoint, from where the body runs again
restart(t, s) ==
  /\ mem' = IF alg = BE
            THEN UndoLog_undo_exception(mem, tx[t].undo_log, s.thrown[1], s.thrown[2])
            ELSE WriteSet_rollback(mem, tx[t].writes, s.thrown[1], s.thrown[2])
  /\ bytelocks' = IF alg = BE THEN ByteEager_unlock(bytelocks, tx[t], t) ELSE bytelocks
  /\ orecs' = IF alg = NANO THEN Nano_unlock(orecs, tx[t]) ELSE orecs
  /\ tx' = [tx EXCEPT ![t] = [NanoReset(ResetLists(@)) EXCEPT
                                !.pc = "op", !.ip = 1, !.mode = "ro"]]
  /\ scope' = [s EXCEPT !.thrown = <<0, 0>>, !.aborted = FALSE]

\* tmabort: the library found a conflict inside a barrier of t; the thrown
\* object is cleared and the scope restarted
tmabort(t) ==
  /\ tx[t].pc = "op"
  /\ hist.aborts < MaxAborts
  /\ restart(t, clearThrownObject(scope))
  /\ hist' = [hist EXCEPT
       !.last = IF \E b \in ByteAddrs :
                       /\ b >= scope.thrown[1] /\ b < scope.thrown[1] + scope.thrown[2]
                       /\ hist.view[b] # hist.cmem[b]
                THEN "conflict_thrown" ELSE "conflict",
       !.aborts = @ + 1,
       !.set = <<0, 0>>, !.nset = 0,
       !.view = hist.cmem]
  /\ UNCHANGED <<alg, wl, seenFresh, NDEBUG>>

NextThrow ==
  \/ \E w \in Words, mask \in Masks : ByteEager_write_masked(Thrower, w, mask)
  \/ \E w \in Words, mask \in Masks : Nano_write_masked(Thrower, w, mask)
  \/ \E r \in ThrownRanges : Scope_setThrownObject(Thrower, r[1], r[2])
  \/ ByteEager_rollback_thrown(Thrower)
  \/ Nano_rollback_thrown(Thrower)
  \/ tmabort(Thrower)

SpecThrow == InitThrow /\ [][NextThrow]_vars

(***************************************************************************)
(* One iteration of the filtered loop of UndoLog::undo(exception, len): a  *)
(* byte-logging entry (any word, any mask, old value 0 in every byte)      *)
(* against any registered range, over memory that holds 1 in every byte.   *)
(* hist.e is the entry as logged, hist.out what filter returned for it.    *)
(***************************************************************************)
InitFilter ==
  /\ wl = "filter"
  /\ alg = BE
  /\ mem = [b \in ByteAddrs |-> 1]
  /\ bytelocks = [b \in Buckets |->
        [owner |-> 0, reader |-> [t \in Threads |-> 0], version |-> 0,
         reader_version |-> [t \in Threads |-> 0]]]
  /\ orecs = [b \in Buckets |-> [v |-> 0, p |-> 0]]
  /\ tx = [t \in Threads |-> [InitTx(t) EXCEPT !.pc = IF t = Thrower THEN "op" ELSE "done"]]
  /\ \E w \in Words, mask \in Masks, r \in ThrownRanges :
       LET e == [addr |-> w, val |-> [i \in ByteIdx |-> 0], mask |-> mask]
       IN hist = [e |-> e, lower |-> r[1], upper |-> r[1] + r[2],
                  out |-> [skip |-> FALSE, e |-> e], last |-> "init"]
  /\ seenFresh = [t \in Threads |-> {}]
  /\ scope = InitScope
  /\ NDEBUG = FALSE

\* the body of the loop: if (i->filter(exception, upper)) continue; i->undo();
UndoLog_undo_step(t) ==
  /\ tx[t].pc = "op"
  /\ LET f == filter(hist.e, hist.lower, hist.upper)
     IN /\ hist' = [hist EXCEPT !.out = f, !.last = "filtered"]
        /\ mem' = IF f.skip THEN mem ELSE UndoLogEntry_undo(mem, f.e)
  /\ tx' = [tx EXCEPT ![t].pc = "done"]
  /\ UNCHANGED <<alg, wl, bytelocks, orecs, seenFresh, scope, NDEBUG>>

NextFilter == UndoLog_undo_step(Thrower)

SpecFilter == InitFilter /\ [][NextFilter]_vars

(***************************************************************************)
(* The write set itself (types.cpp): tx[t].writes is here the concrete     *)
(* structure, a list of capacity slots of which the first lsize are in     *)
(* use, and an open-addressed index of ilength slots (version, address,    *)
(* index) hashed from the address.  One thread inserts, looks up and       *)
(* resets its write set.  hist.live is what has been inserted since the    *)
(* last reset, hist.old what the write set held when the version counter   *)
(* last wrapped.                                                           *)
(***************************************************************************)

\* width of the hash (8 * sizeof(uint32_t) in the source)
HashBits == 5

\* width of the version counter (that of size_t in the source)
VersionBits == 2

\* the hash multiplier, an odd constant
HashMul == 9

\* the word numbers (addr >> k) the transaction writes, and the values
WSAddrs == {1, 8}
WSVals == {1, 2}
InitialCapacities == {1, 2}

RECURSIVE Pow2(_)
Pow2(n) == IF n = 0 THEN 1 ELSE 2 * Pow2(n - 1)

\* a slot that malloc returned and nothing has written
FreshEntry == [addr |-> 0, val |-> 0]

\* index_t(): version 0, no address, index 0
FreshSlot == [version |-> 0, address |-> 0, index |-> 0]

\* WriteSet::hash
hash(ws, addr) == ((addr * HashMul) % Pow2(HashBits)) \div Pow2(ws.shift)

\* WriteSet::doubleIndexLength
doubleIndexLength(ws) ==
  [ws EXCEPT !.shift = ws.shift - 1, !.ilength = Pow2(HashBits - (ws.shift - 1))]

\* WriteSet::WriteSet(initial_capacity)
RECURSIVE GrowIndexLength(_, _)
GrowIndexLength(ws, initial_capacity) ==
  IF ws.ilength < 3 * initial_capacity
  THEN GrowIndexLength(doubleIndexLength(ws), initial_capacity)
  ELSE ws

WriteSet(initial_capacity) ==
  LET ws == GrowIndexLength([index |-> <<>>, shift |-> HashBits, ilength |-> 0,
                             version |-> 1, list |-> <<>>,
                             capacity |-> initial_capacity, lsize |-> 0],
                            initial_capacity)
  IN [ws EXCEPT !.index = [h \in 0 .. (ws.ilength - 1) |-> FreshSlot],
                !.list = [i \in 0 .. (initial_capacity - 1) |-> FreshEntry]]

\* while (index[h].version == version) h = (h + 1) % ilength; the slot the
\* loop stops at, or -1 when it has gone round the index without stopping
RECURSIVE NextAvailable(_, _, _)
NextAvailable(ws, h, n) ==
  IF n = 0 THEN -1
  ELSE IF ws.index[h].version = ws.version
       THEN NextAvailable(ws, (h + 1) % ws.ilength, n - 1)
       ELSE h

\* variant: the slot hashed to is taken whether or not it is in use
RebuildSlot_no_probe(ws, addr) == hash(ws, addr)

\* the slot WriteSet::rebuild puts an address in
RebuildSlot(ws, addr) == NextAvailable(ws, hash(ws, addr), ws.ilength)

\* the loop of WriteSet::rebuild over list slots i .. lsize - 1
RECURSIVE RebuildFrom(_, _)
RebuildFrom(ws, i) ==
  IF i >= ws.lsize THEN [ws |-> ws, hang |-> FALSE]
  ELSE LET h == RebuildSlot(ws, ws.list[i].addr)
       IN IF h = -1 THEN [ws |-> ws, hang |-> TRUE]
          ELSE RebuildFrom([ws EXCEPT !.index[h] =
                              [version |-> ws.version, address |-> ws.list[i].addr,
                               index |-> i]], i + 1)

\* WriteSet::rebuild
WriteSet_rebuild(ws) ==
  LET d == doubleIndexLength(ws)
  IN RebuildFrom([d EXCEPT !.index = [h \in 0 .. (d.ilength - 1) |-> FreshSlot]], 0)

\* WriteSet::resize
WriteSet_resize(ws) ==
  [ws EXCEPT !.capacity = 2 * ws.capacity,
             !.list = [i \in 0 .. (2 * ws.capacity - 1) |->
                         IF i < ws.lsize THEN ws.list[i] ELSE FreshEntry]]

\* the probe of insert and find: the slot that holds addr, the free slot the
\* probe stops at, or -1 when it has gone round the index
RECURSIVE Lookup(_, _, _, _)
Lookup(ws, addr, h, n) ==
  IF n = 0 THEN -1
  ELSE IF ws.index[h].version = ws.version /\ ws.index[h].address # addr
       THEN Lookup(ws, addr, (h + 1) % ws.ilength, n - 1)
       ELSE h

\* WriteSet::insert
WriteSet_insert_value(ws, addr, val) ==
  LET h == Lookup(ws, addr, hash(ws, addr), ws.ilength)
  IN IF h = -1 THEN [ws |-> ws, hang |-> TRUE]
     ELSE IF ws.index[h].version = ws.version
     THEN [ws |-> [ws EXCEPT !.list[ws.index[h].index].val = val], hang |-> FALSE]
     ELSE LET a == [ws EXCEPT !.list[ws.lsize] = [addr |-> addr, val |-> val],
                              !.index[h] = [version |-> ws.version, address |-> addr,
                                            index |-> ws.lsize],
                              !.lsize = ws.lsize + 1]
              r == IF a.lsize = a.capacity THEN WriteSet_resize(a) ELSE a
          IN IF r.lsize * 3 >= r.ilength THEN WriteSet_rebuild(r)
             ELSE [ws |-> r, hang |-> FALSE]

\* WriteSet::find
WriteSet_find_value(ws, addr) ==
  LET h == Lookup(ws, addr, hash(ws, addr), ws.ilength)
  IN IF h # -1 /\ ws.index[h].version = ws.version
     THEN [hit |-> TRUE, val |-> ws.list[ws.index[h].index].val]
     ELSE [hit |-> FALSE, val |-> 0]

\* variant: the version goes back to 1 and the index keeps its slots
WriteSet_reset_internal_keep(ws) == [ws EXCEPT !.version = 1]

\* WriteSet::reset_internal
WriteSet_reset_internal(ws) ==
  [ws EXCEPT !.index = [h \in 0 .. (ws.ilength - 1) |-> FreshSlot], !.version = 1]

\* WriteSet::reset
WriteSet_reset_value(ws) ==
  LET r == [ws EXCEPT !.lsize = 0, !.version = (ws.version + 1) % Pow2(VersionBits)]
  IN IF r.version # 0 THEN r ELSE WriteSet_reset_internal(r)

InitWriteSet ==
  /\ wl = "writeset"
  /\ alg = "Nano"
  /\ mem = [a \in Addrs |-> 0]
  /\ bytelocks = [b \in Buckets |->
        [owner |-> 0, reader |-> [t \in Threads |-> 0], version |-> 0,
         reader_version |-> [t \in Threads |-> 0]]]
  /\ orecs = [b \in Buckets |-> [v |-> 0, p |-> 0]]
  /\ \E c \in InitialCapacities :
       tx = [t \in Threads |-> [InitTx(t) EXCEPT !.pc = "op", !.writes = WriteSet(c)]]
  /\ hist = [live |-> [a \in WSAddrs |-> 0], old |-> {},
             last |-> "init", key |-> 0, found |-> [hit |-> FALSE, val |-> 0],
             hang |-> FALSE, probed |-> FALSE]
  /\ seenFresh = [t \in Threads |-> {}]
  /\ scope = InitScope
  /\ NDEBUG = FALSE

\* the insert needs no rebuild, or the index can still be doubled: shift is
\* not 0 (the assert of doubleIndexLength) and 1 << (HashBits - shift), an
\* int of HashBits bits, does not overflow
CanRebuild(ws) == ws.shift > 2 \/ (ws.lsize + 1) * 3 < ws.ilength

WriteSetOp_insert(t, addr, val) ==
  /\ tx[t].pc = "op" /\ ~hist.hang
  /\ CanRebuild(tx[t].writes)
  /\ LET r == WriteSet_insert_value(tx[t].writes, addr, val)
     IN /\ tx' = [tx EXCEPT ![t].writes = r.ws]
        /\ hist' = [hist EXCEPT
             !.live[addr] = val, !.last = "insert", !.key = 0, !.hang = r.hang,
             !.found = [hit |-> FALSE, val |-> 0],
             !.probed = /\ r.ws.ilength # tx[t].writes.ilength
                        /\ \E i \in 0 .. (r.ws.lsize - 1) :
                             r.ws.index[hash(r.ws, r.ws.list[i].addr)].index # i]
  /\ UNCHANGED <<alg, wl, mem, bytelocks, orecs, seenFresh, scope, NDEBUG>>

WriteSetOp_find(t, addr) ==
  /\ tx[t].pc = "op" /\ ~hist.hang
  /\ hist' = [hist EXCEPT !.last = "find", !.key = addr, !.probed = FALSE,
                          !.found = WriteSet_find_value(tx[t].writes, addr)]
  /\ UNCHANGED <<alg, wl, mem, bytelocks, orecs, tx, seenFresh, scope, NDEBUG>>

WriteSetOp_reset(t) ==
  /\ tx[t].pc = "op" /\ ~hist.hang
  /\ tx' = [tx EXCEPT ![t].writes = WriteSet_reset_value(@)]
  /\ hist' = [hist EXCEPT
       !.live = [a \in WSAddrs |-> 0],
       !.old = IF tx'[t].writes.version = 1 THEN {a \in WSAddrs : hist.live[a] # 0}
               ELSE hist.old,
       !.last = "reset", !.key = 0, !.probed = FALSE,
       !.found = [hit |-> FALSE, val |-> 0]]
  /\ UNCHANGED <<alg, wl, mem, bytelocks, orecs, seenFresh, scope, NDEBUG>>

NextWriteSet ==
  \/ \E a \in WSAddrs, v \in WSVals : WriteSetOp_insert(Thrower, a, v)
  \/ \E a \in WSAddrs : WriteSetOp_find(Thrower, a)
  \/ WriteSetOp_reset(Thrower)

SpecWriteSet == InitWriteSet /\ [][NextWriteSet]_vars

(***************************************************************************)
(* The thread-local descriptor (libitm-5.1,5.cpp).  tx[t].td is thread t's *)
(* td, 0 for NULL.  A descriptor is named by the order of its allocation.  *)
(* hist counts the calls of sys_init and sys_shutdown and, for each        *)
(* thread since its last finalize, the calls of thread_init and the        *)
(* descriptors _ITM_getTransaction has returned.                           *)
(***************************************************************************)

\* calls of the interface in one run
MaxCalls == 4

InitItm ==
  /\ wl = "itm"
  /\ alg = "Nano"
  /\ mem = [a \in Addrs |-> 0]
  /\ bytelocks = [b \in Buckets |->
        [owner |-> 0, reader |-> [t \in Threads |-> 0], version |-> 0,
         reader_version |-> [t \in Threads |-> 0]]]
  /\ orecs = [b \in Buckets |-> [v |-> 0, p |-> 0]]
  /\ tx = [t \in Threads |-> [pc |-> "op", td |-> 0]]
  /\ hist = [calls |-> 0, sys_init |-> 0, sys_shutdown |-> 0, allocated |-> 0,
             live |-> {},
             thread_init |-> [t \in Threads |-> 0],
             returned |-> [t \in Threads |-> {}],
             last |-> [op |-> "init", t |-> 0, created |-> FALSE]]
  /\ seenFresh = [t \in Threads |-> {}]
  /\ scope = InitScope
  /\ NDEBUG = FALSE

\* variant: a descriptor is made on every call
NoDescriptor_always(td) == TRUE

\* if (!td)
NoDescriptor(td) == td = 0

\* the effect of _ITM_getTransaction by thread t on the descriptors: the
\* state after thread_init and new when the thread has none
GetTransaction(x, h, t) ==
  IF NoDescriptor(x[t].td)
  THEN [tx |-> [x EXCEPT ![t].td = h.allocated + 1],
        hist |-> [h EXCEPT !.allocated = h.allocated + 1,
                           !.live = h.live \cup {h.allocated + 1},
                           !.thread_init[t] = h.thread_init[t] + 1,
                           !.returned[t] = h.returned[t] \cup {h.allocated + 1}],
        created |-> TRUE]
  ELSE [tx |-> x, hist |-> [h EXCEPT !.returned[t] = h.returned[t] \cup {x[t].td}],
        created |-> FALSE]

\* the effect of _ITM_finalizeThread by thread t
FinalizeThread(x, h, t) ==
  [tx |-> [x EXCEPT ![t].td = 0],
   hist |-> [h EXCEPT !.live = IF x[t].td # 0 THEN h.live \ {x[t].td} ELSE h.live,
                      !.thread_init[t] = 0, !.returned[t] = {}]]

ITM_getTransaction(t) ==
  /\ hist.calls < MaxCalls
  /\ LET g == GetTransaction(tx, hist, t)
     IN /\ tx' = g.tx
        /\ hist' = [g.hist EXCEPT !.calls = hist.calls + 1,
                      !.last = [op |-> "_ITM_getTransaction", t |-> t,
                                created |-> g.created]]
  /\ UNCHANGED <<alg, wl, mem, bytelocks, orecs, seenFresh, scope, NDEBUG>>

ITM_initializeThread(t) ==
  /\ hist.calls < MaxCalls
  /\ LET g == GetTransaction(tx, hist, t)
     IN /\ tx' = g.tx
        /\ hist' = [g.hist EXCEPT !.calls = hist.calls + 1,
                      !.last = [op |-> "_ITM_initializeThread", t |-> t,
                                created |-> g.created]]
  /\ UNCHANGED <<alg, wl, mem, bytelocks, orecs, seenFresh, scope, NDEBUG>>

ITM_initializeProcess(t) ==
  /\ hist.calls < MaxCalls
  /\ LET h == IF tx[t].td = 0 THEN [hist EXCEPT !.sys_init = hist.sys_init + 1]
              ELSE hist
         g == GetTransaction(tx, h, t)
     IN /\ tx' = g.tx
        /\ hist' = [g.hist EXCEPT !.calls = hist.calls + 1,
                      !.last = [op |-> "_ITM_initializeProcess", t |-> t,
                                created |-> g.created]]
  /\ UNCHANGED <<alg, wl, mem, bytelocks, orecs, seenFresh, scope, NDEBUG>>

ITM_finalizeThread(t) ==
  /\ hist.calls < MaxCalls
  /\ LET f == FinalizeThread(tx, hist, t)
     IN /\ tx' = f.tx
        /\ hist' = [f.hist EXCEPT !.calls = hist.calls + 1,
                      !.last = [op |-> "_ITM_finalizeThread", t |-> t,
                                created |-> FALSE]]
  /\ UNCHANGED <<alg, wl, mem, bytelocks, orecs, seenFresh, scope, NDEBUG>>

ITM_finalizeProcess(t) ==
  /\ hist.calls < MaxCalls
  /\ LET f == FinalizeThread(tx, hist, t)
     IN /\ tx' = f.tx
        /\ hist' = [f.hist EXCEPT !.calls = hist.calls + 1,
                      !.sys_shutdown = hist.sys_shutdown + 1,
                      !.last = [op |-> "_ITM_finalizeProcess", t |-> t,
                                created |-> FALSE]]
  /\ UNCHANGED <<alg, wl, mem, bytelocks, orecs, seenFresh, scope, NDEBUG>>

NextItm ==
  \E t \in Threads :
    \/ ITM_getTransaction(t)
    \/ ITM_initializeThread(t)
    \/ ITM_initializeProcess(t)
    \/ ITM_finalizeThread(t)
    \/ ITM_finalizeProcess(t)

SpecItm == InitItm /\ [][NextItm]_vars

(***************************************************************************)
(* The scope's own rollback (Scope.cpp).  One activation of the scope of   *)
(* thread Thrower: the application logs memory it is about to overwrite    *)
(* (undo_on_rollback), registers callbacks, may register a thrown object,  *)
(* and the scope is rolled back or committed.  mem is indexed by byte      *)
(* address; a logged word is (address_, value_, bytes_) with value_ held   *)
(* as its bytes, least significant first.  hist.trace lists the undo and   *)
(* callback evaluations in the order they happen.                          *)
(***************************************************************************)
LogIds == {1, 2}
RollbackCallbacks == {1, 2}
CommitCallbacks == {1}

\* the (address, bytes) of the words the application may log: words of
\* WordBytes bytes at any byte address
LoggableWords ==
  {<<a, n>> \in ByteAddrs \X {WordBytes} : \A i \in 0 .. (n - 1) : a + i \in ByteAddrs}

\* value_ >> (k * 8)
ShiftRight(value, k) == [i \in ByteIdx |-> IF i + k \in ByteIdx THEN value[i + k] ELSE 0]

\* Scope::LoggedWord::clip.  The two clipping branches do not return, so
\* every call that is neither disjoint from the range nor inside it runs
\* into the final assert(false): fatal with assertions compiled in, a plain
\* return with NDEBUG (nd).
LoggedWord_clip(w, lower, upper, nd) ==
  LET begin == w.address
      end == w.address + w.bytes
  IN IF end <= lower \/ begin >= upper THEN [w |-> w, fatal |-> FALSE]
     ELSE IF begin >= lower /\ end <= upper
     THEN [w |-> [w EXCEPT !.bytes = 0], fatal |-> FALSE]
     ELSE LET w1 == IF begin < lower /\ end < upper
                    THEN [w EXCEPT !.bytes = lower - begin]
                    ELSE w
              end1 == w1.address + w1.bytes
              w2 == IF w1.address > lower /\ end1 > upper
                    THEN [address |-> upper,
                          value |-> ShiftRight(w1.value, upper - w1.address),
                          bytes |-> end1 - upper]
                    ELSE w1
          IN [w |-> w2, fatal |-> ~nd]

\* __builtin_memcpy(address_, &value_, bytes_)
LoggedWord_memcpy(m, w) ==
  [b \in DOMAIN m |->
     IF b >= w.address /\ b < w.address + w.bytes THEN w.value[b - w.address] ELSE m[b]]

\* variant: the undo list replayed oldest entry first
UndoOrder_fifo(n) == [k \in 1 .. n |-> k]

\* Scope::rollback, step 1: the positions of undo_on_rollback in the order
\* the loop visits them, end() - 1 down to begin()
UndoOrder(n) == [k \in 1 .. n |-> n + 1 - k]

\* Scope::rollback, step 1 from the k-th visit on: LoggedWord::undo on each
\* entry (clip against the thrown object, then memcpy); a failed assert
\* ends the process where it is
RECURSIVE UndoLoggedWords(_, _, _, _, _, _)
UndoLoggedWords(m, log, order, k, thrown, nd) ==
  IF k > Len(order) THEN [mem |-> m, log |-> log, fatal |-> FALSE, trace |-> <<>>]
  ELSE LET i == order[k]
           c == LoggedWord_clip(log[i], thrown[1], thrown[1] + thrown[2], nd)
       IN IF c.fatal
          THEN [mem |-> m, log |-> [log EXCEPT ![i] = c.w], fatal |-> TRUE,
                trace |-> <<>>]
          ELSE LET r == UndoLoggedWords(LoggedWord_memcpy(m, c.w),
                                        [log EXCEPT ![i] = c.w], order, k + 1, thrown, nd)
               IN [r EXCEPT !.trace = << <<"undo", i>> >> \o @]

InitScopeRun ==
  /\ wl = "scope"
  /\ alg = BE
  /\ mem = [b \in ByteAddrs |-> 0]
  /\ bytelocks = [b \in Buckets |->
        [owner |-> 0, reader |-> [t \in Threads |-> 0], version |-> 0,
         reader_version |-> [t \in Threads |-> 0]]]
  /\ orecs = [b \in Buckets |-> [v |-> 0, p |-> 0]]
  /\ tx = [t \in Threads |-> [InitTx(t) EXCEPT !.pc = IF t = Thrower THEN "op" ELSE "done"]]
  /\ hist = [cmem |-> [b \in ByteAddrs |-> 0], pre |-> [b \in ByteAddrs |-> 0],
             logged |-> <<>>, trace |-> <<>>, ret |-> <<>>, last |-> "scope",
             set |-> <<0, 0>>, nset |-> 0]
  /\ seenFresh = [t \in Threads |-> {}]
  /\ scope = [InitScope EXCEPT !.aborted = FALSE]
  /\ NDEBUG \in BOOLEAN

\* the application logs the bytes of a word (undo_on_rollback_.insert of a
\* LoggedWord holding the current contents) and then overwrites them
Scope_log(t, a, n) ==
  /\ tx[t].pc = "op"
  /\ Len(scope.undo_on_rollback) < Cardinality(LogIds)
  /\ scope' = [scope EXCEPT !.undo_on_rollback =
                 Append(@, [address |-> a,
                            value |-> [i \in ByteIdx |-> IF i < n THEN mem[a + i] ELSE 0],
                            bytes |-> n])]
  /\ mem' = [b \in ByteAddrs |->
               IF b >= a /\ b < a + n THEN Len(scope.undo_on_rollback) + 1 ELSE mem[b]]
  /\ hist' = [hist EXCEPT !.last = "scope"]
  /\ UNCHANGED <<alg, wl, bytelocks, orecs, tx, seenFresh, NDEBUG>>

\* do_on_rollback_.insert(callback)
Scope_registerOnRollback(t, c) ==
  /\ tx[t].pc = "op"
  /\ \A k \in 1 .. Len(scope.do_on_rollback) : scope.do_on_rollback[k] # c
  /\ scope' = [scope EXCEPT !.do_on_rollback = Append(@, c)]
  /\ hist' = [hist EXCEPT !.last = "scope"]
  /\ UNCHANGED <<alg, wl, mem, bytelocks, orecs, tx, seenFresh, NDEBUG>>

\* do_on_commit_.insert(callback)
Scope_registerOnCommit(t, c) ==
  /\ tx[t].pc = "op"
  /\ \A k \in 1 .. Len(scope.do_on_commit) : scope.do_on_commit[k] # c
  /\ scope' = [scope EXCEPT !.do_on_commit = Append(@, c)]
  /\ hist' = [hist EXCEPT !.last = "scope"]
  /\ UNCHANGED <<alg, wl, mem, bytelocks, orecs, tx, seenFresh, NDEBUG>>

\* Scope::rollback: undo the logged words, evaluate the onAbort callbacks
\* first registered first, clear the commit callbacks, aborted_ = true,
\* return thrown_
Scope_rollback(t) ==
  /\ tx[t].pc = "op"
  /\ LET u == UndoLoggedWords(mem, scope.undo_on_rollback,
                              UndoOrder(Len(scope.undo_on_rollback)), 1,
                              scope.thrown, NDEBUG)
     IN /\ mem' = u.mem
        /\ IF u.fatal
           THEN /\ scope' = [scope EXCEPT !.undo_on_rollback = u.log]
                /\ tx' = [tx EXCEPT ![t].pc = "fatal"]
                /\ hist' = [hist EXCEPT !.pre = mem, !.logged = scope.undo_on_rollback,
                                        !.trace = @ \o u.trace, !.last = "rollback"]
           ELSE /\ scope' = [scope EXCEPT !.undo_on_rollback = u.log,
                                          !.do_on_commit = <<>>,
                                          !.aborted = TRUE]
                /\ tx' = [tx EXCEPT ![t].pc = "rolled"]
                /\ hist' = [hist EXCEPT
                     !.pre = mem, !.logged = scope.undo_on_rollback,
                     !.trace = @ \o u.trace
                                 \o [k \in 1 .. Len(scope.do_on_rollback) |->
                                       <<"onAbort", scope.do_on_rollback[k]>>],
                     !.ret = scope.thrown,
                     !.last = "rollback"]
  /\ UNCHANGED <<alg, wl, bytelocks, orecs, seenFresh, NDEBUG>>

\* Scope::commit: evaluate the commit callbacks first registered first
Scope_commit(t) ==
  /\ tx[t].pc \in {"op", "rolled"}
  /\ tx' = [tx EXCEPT ![t].pc = "committed"]
  /\ hist' = [hist EXCEPT
       !.trace = @ \o [k \in 1 .. Len(scope.do_on_commit) |->
                         <<"onCommit", scope.do_on_commit[k]>>],
       !.last = "commit"]
  /\ UNCHANGED <<alg, wl, mem, bytelocks, orecs, seenFresh, scope, NDEBUG>>

NextScope ==
  \/ \E w \in LoggableWords : Scope_log(Thrower, w[1], w[2])
  \/ \E c \in RollbackCallbacks : Scope_registerOnRollback(Thrower, c)
  \/ \E c \in CommitCallbacks : Scope_registerOnCommit(Thrower, c)
  \/ \E r \in ThrownRanges : Scope_setThrownObject(Thrower, r[1], r[2])
  \/ Scope_clearThrownObject(Thrower)
  \/ Scope_rollback(Thrower)
  \/ Scope_commit(Thrower)

SpecScope == InitScopeRun /\ [][NextScope]_vars

(***************************************************************************)
(* Properties                                                              *)
(***************************************************************************)
Others(t) == Threads \ {t}

Aborting(t) == tx[t].pc \in {"rb_undo", "rb_relw", "nrb"}

\* the bucket the barrier t is executing works on
CurBucket(t) == get_bytelock(CurOp(t).a)

\* C1: no lost updates -- when every thread has committed its TxPerThread
\* read-increment-write transactions on the counter at address 0, the
\* counter holds its initial value 0 plus (number of threads) * TxPerThread,
\* for ByteEager and for Nano.
C1_NoLostUpdates ==
  (wl \in {"inc", "inc3"} /\ AllDone) => mem[0] = NumTx

C1_Witness == wl = "inc3" /\ AllDone /\ mem[0] = NumTx /\ NumTx = Cardinality(Threads)

\* C2: snapshot consistency -- with a writer storing 7 to address 0 and 9 to
\* address 1, a reader of address 0 then address 1 that commits has seen
\* (0,0) or (7,9), under either algorithm.
C2_Snapshot ==
  (wl = "snap" /\ tx[2].pc = "done") => tx[2].regs \in {<<0, 0>>, <<7, 9>>}

C2_Witness == wl = "snap" /\ tx[2].pc = "done" /\ tx[2].regs = <<7, 9>>

\* C3 as stated: of two transactions whose begin-to-commit intervals overlap
\* and that access one address in conflict, at least one aborts, i.e. no
\* transaction commits after a conflicting overlapping one committed.
C3_Isolation == ~hist.isoViol

\* C3, amended: a transaction that read an address, did not release it
\* early, and wrote it, never commits when another transaction committed a
\* write to that address after the read.
C3_NoStaleUpdate == ~hist.staleUpd

\* the case happens: t read a word that has been overwritten since, wrote it
\* too, and is being rolled back
C3_Witness ==
  \E t \in Threads :
    /\ Aborting(t)
    /\ \E a \in hist.staleRd[t] :
         <<a, "w">> \in hist.acc[t] /\ get_bytelock(a) \notin hist.released[t]

\* C4: ByteEager rollback faithfulness -- when rollback has replayed the
\* undo log (no thrown object) and has not yet released any write lock,
\* every word the transaction wrote in place holds again the value it had
\* before the transaction touched it (the committed value), and every
\* bucket in the write-lock list is still owned by the transaction; at any
\* time, a word whose bucket nobody owns holds its committed value.
C4_RollbackFaithful ==
  alg = BE =>
    /\ \A t \in Threads :
         (tx[t].pc = "rb_relw" /\ tx[t].idx = 1) =>
           /\ \A a \in Addrs : <<a, "w">> \in hist.acc[t] => mem[a] = hist.cmem[a]
           /\ \A i \in 1 .. Len(tx[t].undo_log) :
                mem[tx[t].undo_log[i][1]] = hist.cmem[tx[t].undo_log[i][1]]
           /\ \A i \in 1 .. Len(tx[t].w_bytelocks) :
                bytelocks[tx[t].w_bytelocks[i]].owner = t
    /\ \A a \in Addrs :
         bytelocks[get_bytelock(a)].owner = 0 => mem[a] = hist.cmem[a]

\* a rollback that has undone a word written twice, locks still held
C4_Witness ==
  /\ alg = BE
  /\ \E t \in Threads :
       /\ tx[t].pc = "rb_relw" /\ tx[t].idx = 1
       /\ \E i, j \in 1 .. Len(tx[t].undo_log) :
            i < j /\ tx[t].undo_log[i][1] = tx[t].undo_log[j][1]
       /\ \A i \in 1 .. Len(tx[t].w_bytelocks) :
            bytelocks[tx[t].w_bytelocks[i]].owner = t

\* C5: ByteEager reader/writer exclusion -- no thread is past the
\* owner == 0 check of a read barrier (about to return *addr) on a bucket
\* that another thread owns with its drain finished, and no read barrier
\* ever returned a value other than the committed one (or the reader's own
\* write).
C5_ReaderWriterExclusion ==
  alg = BE =>
    /\ ~hist.dirtyRead
    /\ \A t \in Threads : \A u \in Others(t) :
         tx[t].pc \in {"rd_ver", "rd_ret"} =>
           ~(bytelocks[CurBucket(t)].owner = u /\ CurBucket(t) \in hist.drained[u])

\* a reader about to return while a writer has the bucket but still drains
C5_Witness ==
  /\ alg = BE
  /\ \E t \in Threads : \E u \in Others(t) :
       /\ tx[t].pc = "rd_ret"
       /\ bytelocks[CurBucket(t)].owner = u
       /\ tx[u].pc = "wr_drain"

\* C6 as stated: while a writer owns a bucket with its drain finished, no
\* other thread's reader byte on the bucket is set.
C6_NoReaderByteAfterDrain ==
  alg = BE =>
    \A b \in Buckets : \A u \in Threads : \A t \in Others(u) :
      (bytelocks[b].owner = u /\ b \in hist.drained[u]) => bytelocks[b].reader[t] = 0

\* C6, amended: while a writer owns a bucket with its drain finished,
\* another thread's reader byte on the bucket is set only between that
\* thread's set_read_byte and its owner test in the read loop, which then
\* clears the byte without reading.
C6_ReaderByteOnlyTransient ==
  alg = BE =>
    \A b \in Buckets : \A u \in Threads : \A t \in Others(u) :
      (bytelocks[b].owner = u /\ b \in hist.drained[u] /\ bytelocks[b].reader[t] = 1)
        => (tx[t].pc = "rd_chk" /\ CurBucket(t) = b)

C6_Witness ==
  /\ alg = BE
  /\ \E b \in Buckets : \E u \in Threads : \E t \in Others(u) :
       /\ bytelocks[b].owner = u /\ b \in hist.drained[u]
       /\ bytelocks[b].reader[t] = 1
       /\ tx[t].pc = "rd_chk"

\* C7: Nano freshness -- a transaction is at the writeback of commit_rw only
\* if it holds the orec of every write-set entry and every read-set entry
\* (o, v) has satisfied "o.v == v, or o.v == my_lock and o.p == v" since
\* those locks were taken; and memory differs from its committed contents
\* only in words a transaction at writeback is storing, so a transaction
\* that aborts wrote nothing.
C7_NanoFreshness ==
  alg = NANO =>
    /\ \A t \in Threads :
         tx[t].pc = "nc_wb" =>
           /\ \A i \in 1 .. Len(tx[t].nanorecs) : i \in seenFresh[t]
           /\ \A i \in 1 .. Len(tx[t].writes) :
                orecs[get_nanorec(tx[t].writes[i][1])].v = my_lock(t)
    /\ \A a \in Addrs :
         mem[a] # hist.cmem[a] =>
           \E t \in Threads :
             tx[t].pc = "nc_wb" /\ \E i \in 1 .. Len(tx[t].writes) : tx[t].writes[i][1] = a

\* a commit at writeback with a read set, one entry of which is an orec the
\* transaction itself holds
C7_Witness ==
  /\ alg = NANO
  /\ \E t \in Threads :
       /\ tx[t].pc = "nc_wb"
       /\ \E i \in 1 .. Len(tx[t].nanorecs) :
            orecs[tx[t].nanorecs[i].o].v = my_lock(t)

\* C8: ByteEager version mismatch -- a transaction that read an address of a
\* bucket never completes a later read on that bucket once another
\* transaction has written the address and committed in between.
C8_VersionMismatchAborts == alg = BE => ~hist.staleSame

\* C9: Nano read revalidation -- once another transaction has committed a
\* write to an address in a transaction's read set, no later read barrier of
\* that transaction (ro or rw mode, any address) returns a value.
C9_NanoRevalidation == alg = NANO => ~hist.staleRead

\* a transaction with a stale read-set entry aborting out of the read of a
\* third address
C9_Witness ==
  /\ alg = NANO /\ wl \in {"rrr", "rwr"}
  /\ tx[1].pc = "nrb" /\ tx[1].ip = 3
  /\ hist.staleRd[1] # {}

InThrown(t, b) == b >= scope.thrown[1] /\ b < scope.thrown[1] + scope.thrown[2]

\* C10: cancel-and-throw protection -- after the rollback of a cancelled
\* transaction, every byte inside the registered thrown range holds what
\* the transaction wrote to it (so a word A written as 1 and covered by the
\* range reads 1), and every byte outside the range holds its
\* pre-transaction value, for ByteEager's undo log and for Nano's redo log.
C10_ThrownProtected ==
  tx[Thrower].pc = "done" =>
    \A b \in ByteAddrs :
      mem[b] = IF InThrown(Thrower, b) THEN hist.view[b] ELSE hist.cmem[b]

\* word 1 written as 1 and covered by the range, other bytes written and
\* not covered, rollback done
C10_Witness ==
  /\ tx[Thrower].pc = "done"
  /\ \A i \in ByteIdx : InThrown(Thrower, ByteAddr(1, i)) /\ mem[ByteAddr(1, i)] = 1
  /\ \E b \in ByteAddrs : ~InThrown(Thrower, b) /\ hist.view[b] # hist.cmem[b]

\* C11: a conflict abort ignores a registered thrown object -- right after
\* tmabort the scope holds no thrown object, no byte kept what the
\* transaction wrote (memory is as before the transaction, also inside the
\* range that was registered), and the transaction is at the start of its
\* body again instead of having been ended and re-raised.
C11_ConflictIgnoresThrown ==
  hist.last \in {"conflict", "conflict_thrown"} =>
    /\ scope.thrown = <<0, 0>>
    /\ mem = hist.cmem
    /\ tx[Thrower].pc = "op" /\ tx[Thrower].ip = 1
    /\ tx[Thrower].undo_log = <<>> /\ tx[Thrower].writes = <<>>

\* a conflict abort that found written bytes inside a registered range
C11_Witness == hist.last = "conflict_thrown" /\ mem = hist.cmem

\* the thread whose barrier calls the waiting properties follow
Waiter == CHOOSE t \in Threads : \A u \in Threads : t <= u

\* Waiter is scheduled again and again; nothing is assumed of the others
SpecWait ==
  Spec /\ WF_vars(Begin(Waiter) \/ ByteEagerStep(Waiter) \/ NanoStep(Waiter))

InByteEagerBarrier(t) ==
  tx[t].pc \in {"rd_set", "rd_chk", "rd_spin", "rd_ver", "rd_ret",
                "wr_cas", "wr_drain", "wr_do"}

InNanoRead(t) == tx[t].pc \in {"n_ivt", "n_tmp", "n_ivt2", "n_val"}

\* C12: ByteEager bounded waiting -- a barrier call of a thread that keeps
\* being scheduled ends (returns or self-aborts), whatever the other
\* threads do.
C12_BarrierCallEnds ==
  [](alg = BE /\ InByteEagerBarrier(Waiter) => <>(~InByteEagerBarrier(Waiter)))

\* C13: Nano bounded waiting -- a read of a thread that keeps being
\* scheduled ends (returns or self-aborts), whatever the other threads do,
\* also while the orec stays locked.
C13_NanoReadEnds ==
  [](alg = NANO /\ InNanoRead(Waiter) => <>(~InNanoRead(Waiter)))

\* the trace a rollback of n logged words and the registered onAbort
\* callbacks must leave: words newest to oldest, then callbacks in
\* registration order
RollbackTrace(n, callbacks) ==
  [k \in 1 .. n |-> <<"undo", n + 1 - k>>]
    \o [k \in 1 .. Len(callbacks) |-> <<"onAbort", callbacks[k]>>]

\* C14: Scope::rollback ordering -- when rollback has returned, it has
\* undone every entry of undo_on_rollback from newest to oldest (so with no
\* thrown object every logged byte holds its oldest logged value), then
\* evaluated every do_on_rollback callback in registration order,
\* do_on_commit is empty, aborted is true and the pair returned is the
\* scope's thrown (addr, len); a commit that follows evaluates no callback.
C14_RollbackOrder ==
  (wl = "scope" /\ hist.ret # <<>>) =>
    /\ SubSeq(hist.trace, 1, Len(hist.logged) + Len(scope.do_on_rollback))
         = RollbackTrace(Len(hist.logged), scope.do_on_rollback)
    /\ Len(hist.trace) = Len(hist.logged) + Len(scope.do_on_rollback)
    /\ scope.do_on_commit = <<>>
    /\ scope.aborted
    /\ hist.ret = scope.thrown
    /\ scope.thrown = <<0, 0>> => mem = hist.cmem

\* rollback returned after two logs of the same byte, two onAbort callbacks
\* and a commit callback were registered, and a commit followed
C14_Witness ==
  /\ wl = "scope" /\ hist.ret # <<>> /\ tx[Thrower].pc = "committed"
  /\ Len(hist.logged) = 2
  /\ hist.logged[1].address = hist.logged[2].address
  /\ scope.do_on_rollback = <<2, 1>>
  /\ hist.pre # hist.cmem /\ mem = hist.cmem

\* a logged word that reaches past both ends of the range
TwoSided(w, thrown) ==
  w.address < thrown[1] /\ w.address + w.bytes > thrown[1] + thrown[2]

Logged(b) ==
  \E i \in 1 .. Len(hist.logged) :
    b >= hist.logged[i].address /\ b < hist.logged[i].address + hist.logged[i].bytes

\* C15: undo clipping under partial overlap -- a rollback with a thrown
\* range that no logged word reaches past on both sides runs into no
\* precondition violation, leaves every byte inside the range as it was
\* before the rollback and restores every logged byte outside the range.
C15_PartialOverlapClipped ==
  (/\ wl = "scope" /\ hist.last = "rollback"
   /\ scope.thrown[2] > 0
   /\ \A i \in 1 .. Len(hist.logged) : ~TwoSided(hist.logged[i], scope.thrown))
  => /\ tx[Thrower].pc # "fatal"
     /\ \A b \in ByteAddrs :
          IF InThrown(Thrower, b) THEN mem[b] = hist.pre[b]
          ELSE Logged(b) => mem[b] = hist.cmem[b]

C17_NanoReadAfterWrite ==
  alg = NANO =>
    /\ \A t \in Threads :
         (tx[t].pc \in {"op", "n_ivt", "n_tmp", "n_ivt2", "n_val"}
            /\ tx[t].writes # <<>>) => tx[t].mode = "rw"
    /\ wl = "raw" =>
         \A i \in 1 .. Len(tx[1].regs) : tx[1].regs[i] = i

\* both reads have returned the transaction's own values while memory held
\* the value another transaction committed
C17_Witness ==
  /\ alg = NANO /\ wl = "raw"
  /\ tx[1].regs = <<1, 2>> /\ mem[0] = 3 /\ tx[1].mode = "rw"

\* C18: ByteEager versioned re-read -- on every bucket, also one whose
\* version is still the initial one, no read or write barrier of a
\* transaction returns on a bucket the transaction read and early-released
\* once another transaction has written the address read and committed.
C18_ReleasedBucketReuseAborts == alg = BE => ~hist.staleReuse

\* the buckets thread t owns
Owned(t) == {b \in Buckets : bytelocks[b].owner = t}

\* C19: ByteEager write-mode invariant -- a thread that owns a bucket has it
\* in its write-lock list, and whenever a thread with a non-empty write-lock
\* list is between barrier calls (where the next barrier or the commit is
\* dispatched) its dispatch is the read-write one, whatever mix of write and
\* write_reserve calls filled the list; the only states with a non-empty
\* list under the read-only dispatch are inside the write barrier or
\* write_reserve call that took the first lock, or the rollback it ended in.
\* So commit_ro is never dispatched by a thread that owns a bucket and
\* read_ro never on a bucket the thread owns.
C19_WriteModeInvariant ==
  alg = BE =>
    \A t \in Threads :
      /\ \A b \in Owned(t) : \E i \in 1 .. Len(tx[t].w_bytelocks) :
                                tx[t].w_bytelocks[i] = b
      /\ (tx[t].w_bytelocks # <<>> /\ tx[t].mode = "ro") =>
            /\ tx[t].pc \in {"wr_drain", "wr_do", "rb_undo", "rb_relw"}
            /\ Len(tx[t].w_bytelocks) = 1
      /\ (AtEnd(t) /\ tx[t].mode = "ro") => Owned(t) = {}
      /\ (HasOp(t) /\ CurOp(t).op = "read" /\ tx[t].mode = "ro") =>
            get_bytelock(CurOp(t).a) \notin Owned(t)

\* two write_reserve calls have taken two locks and no write has been made:
\* the thread is between barriers under the read-write dispatch
C19_Witness ==
  /\ alg = BE /\ wl = "res"
  /\ tx[1].pc = "op" /\ tx[1].ip = 3 /\ tx[1].mode = "rw"
  /\ Len(tx[1].w_bytelocks) = 2 /\ Owned(1) = {0, 1}
  /\ mem = [a \in Addrs |-> 0]

\* thread t holds nothing and has nothing logged
Quiescent(t) ==
  /\ \A b \in Buckets :
       /\ bytelocks[b].owner # t
       /\ bytelocks[b].reader[t] = 0
       /\ bytelocks[b].reader_version[t] = 0
  /\ tx[t].r_bytelocks = <<>> /\ tx[t].w_bytelocks = <<>> /\ tx[t].undo_log = <<>>
  /\ tx[t].mode = "ro"

\* C20: ByteEager quiescence -- whenever commit_ro, commit_rw or rollback
\* has returned for a thread (it is about to begin a transaction or has no
\* more to run), the thread owns no bucket, has no reader byte set and no
\* version recorded on any bucket, its read-lock list, write-lock list and
\* undo log are empty and its dispatch is the read-only one, wherever in a
\* barrier an abort happened and whatever was early-released.
C20_Quiescence ==
  alg = BE => \A t \in Threads : tx[t].pc \in {"begin", "done"} => Quiescent(t)

\* rollback has returned for a thread that aborted right after its CAS, on
\* a bucket it had read and early-released in that transaction
C20_Witness ==
  /\ alg = BE /\ wl = "relW"
  /\ tx[1].pc = "begin" /\ hist.abortAt[1] = "after_cas"
  /\ 0 \in hist.released[1] /\ bytelocks[0].version > 0
  /\ Quiescent(1)

\* C21: ByteEager writer self-exclusion -- while a thread owns a bucket
\* (from the acquire step, which clears its reader byte, to the release of
\* owner) its own reader byte on that bucket is 0, whatever reads,
\* read_reserve or release calls it makes meanwhile; so in its own drain
\* the byte it looks at for itself is 0.
C21_WriterSelfExclusion ==
  alg = BE =>
    \A b \in Buckets, t \in Threads :
      bytelocks[b].owner = t => bytelocks[b].reader[t] = 0

\* a thread that held a read lock on a bucket took the write lock through
\* write_reserve, then called read_reserve, read and release on the bucket
C21_Witness ==
  /\ alg = BE /\ wl = "res"
  /\ AtEnd(2) /\ Len(tx[2].regs) = 2
  /\ bytelocks[0].owner = 2 /\ bytelocks[0].reader[2] = 0
  /\ tx[2].r_bytelocks = <<0>> /\ tx[2].w_bytelocks = <<0>>

\* C22: ByteEager version monotonicity -- a step changes a bucket's version
\* only by adding one, only when taken by the thread that owns the bucket,
\* and only as the step that follows its completed drain; that step of
\* write_ro, write_rw and write_reserve always adds one.  So no abort before
\* the end of the drain and no rollback step changes a version.
C22_VersionMonotonic ==
  [][alg = BE =>
       /\ \A b \in Buckets :
            bytelocks'[b].version # bytelocks[b].version =>
              /\ bytelocks'[b].version = bytelocks[b].version + 1
              /\ bytelocks[b].owner \in Threads
              /\ bytelocks'[b].owner = bytelocks[b].owner
              /\ tx[bytelocks[b].owner].pc = "wr_do"
              /\ tx'[bytelocks[b].owner].pc = "op"
              /\ get_bytelock(CurOp(bytelocks[b].owner).a) = b
       /\ \A t \in Threads :
            (tx[t].pc = "wr_do" /\ tx'[t].pc # "wr_do") =>
              bytelocks'[get_bytelock(CurOp(t).a)].version
                = bytelocks[get_bytelock(CurOp(t).a)].version + 1]_vars

\* a rollback has returned for a transaction that completed one acquisition
\* (bucket 0) and aborted in the drain of a second one (bucket 1): the first
\* version is still one up, the second was never changed, memory is restored
C22_Witness ==
  /\ alg = BE /\ wl = "undo"
  /\ tx[1].pc = "begin" /\ hist.abortAt[1] = "wr_drain"
  /\ bytelocks[0].version = 1 /\ bytelocks[1].version = 0
  /\ mem[0] = 0

\* thread u has orec o on its lock list and has not yet passed it in a
\* release loop
HoldsListed(u, o) ==
  \E i \in 1 .. Len(tx[u].locks) :
    /\ tx[u].locks[i] = o
    /\ ~(tx[u].pc \in {"nc_rel", "nrb"} /\ i < tx[u].idx)

Listed(u, o) == \E i \in 1 .. Len(tx[u].locks) : tx[u].locks[i] = o

\* C23 as stated: an orec whose v is a thread's my_lock is on the lock list
\* of that thread and of no other, and its p is the unlocked version v had
\* just before the thread's CAS.
C23_OnlyHolderListsOrec ==
  alg = NANO =>
    \A o \in Buckets, t \in Threads :
      orecs[o].v = my_lock(t) =>
        /\ \A u \in Threads : Listed(u, o) <=> u = t
        /\ orecs[o].p = hist.preLock[o] /\ ~IsLocked(orecs[o].p)

\* C23, amended: an orec whose v is a thread's my_lock is on that thread's
\* lock list, not yet passed by a release loop of that thread, and its p is
\* the unlocked version v had just before the thread's CAS; any other
\* thread that still lists the orec is in the release loop of its commit or
\* rollback and has already passed it.
C23_OrecOwnership ==
  alg = NANO =>
    \A o \in Buckets, t \in Threads :
      orecs[o].v = my_lock(t) =>
        /\ HoldsListed(t, o)
        /\ tx[t].pc \in {"nc_lock", "nc_cas", "nc_val", "nc_wb", "nc_rel", "nrb"}
        /\ \A u \in Threads \ {t} : ~HoldsListed(u, o)
        /\ orecs[o].p = hist.preLock[o] /\ ~IsLocked(orecs[o].p)

\* thread 2 has locked the orec that thread 1, still in the release loop of
\* its commit, released with a new version
C23_Witness ==
  /\ alg = NANO /\ wl = "two"
  /\ tx[1].pc = "nc_rel" /\ tx[1].idx = 2 /\ tx[1].locks = <<0, 1>>
  /\ orecs[0].v = my_lock(2) /\ orecs[0].p = 1 /\ Listed(2, 0)
  /\ orecs[1].v = my_lock(1)

\* thread t holds no orec and has nothing logged
NanoQuiescent(t) ==
  /\ \A o \in Buckets : orecs[o].v # my_lock(t)
  /\ tx[t].nanorecs = <<>> /\ tx[t].writes = <<>> /\ tx[t].locks = <<>>
  /\ tx[t].mode = "ro"

\* C24: Nano lock release -- an orec locked by a thread stops being locked
\* by it only through that thread's release loops: commit_rw stores its
\* pre-lock version plus one, rollback its pre-lock version; and whenever
\* commit_rw or rollback has returned, no orec is locked by the thread and
\* its read set, write set and lock list are empty.
C24_NanoLockRelease ==
  /\ [][alg = NANO =>
          \A o \in Buckets, t \in Threads :
            (orecs[o].v = my_lock(t) /\ orecs'[o].v # my_lock(t)) =>
              \/ tx[t].pc = "nc_rel" /\ orecs'[o].v = hist.preLock[o] + 1
              \/ tx[t].pc = "nrb" /\ orecs'[o].v = hist.preLock[o]]_vars
  /\ [](alg = NANO =>
          \A t \in Threads : tx[t].pc \in {"begin", "done"} => NanoQuiescent(t))

\* rollback has returned for a commit that had locked one orec (at version
\* 1, after another commit) and aborted on finding the next one locked: the
\* orec is back at version 1
C24_Witness ==
  /\ alg = NANO /\ wl = "two"
  /\ tx[2].pc = "begin" /\ hist.abortAt[2] = "nc_lock"
  /\ orecs[0] = [v |-> 1, p |-> 1] /\ hist.preLock[0] = 1
  /\ NanoQuiescent(2)

\* C25: Nano writes memory only at a successful commit -- every step that
\* changes memory is the store of one redo-log entry by a thread in the
\* writeback of commit_rw, which holds the orec of every write-set entry and
\* has seen every read-set entry valid since it took them; a thread in the
\* writeback or the release loop of commit_rw never goes to rollback; and no
\* rollback step changes memory.
C25_NanoWritesAtCommit ==
  [][alg = NANO =>
       /\ mem' # mem =>
            \E t \in Threads :
              /\ tx[t].pc = "nc_wb"
              /\ mem' = [mem EXCEPT ![tx[t].writes[tx[t].idx][1]] =
                                       tx[t].writes[tx[t].idx][2]]
              /\ \A i \in 1 .. Len(tx[t].writes) :
                   orecs[get_nanorec(tx[t].writes[i][1])].v = my_lock(t)
              /\ \A i \in 1 .. Len(tx[t].nanorecs) : i \in seenFresh[t]
       /\ \A t \in Threads :
            /\ tx[t].pc \in {"nc_wb", "nc_rel"} =>
                 tx'[t].pc \in {"nc_wb", "nc_rel", "begin", "done"}
            /\ (tx[t].pc = "nrb" /\ tx'[t] # tx[t]) => mem' = mem]_vars

\* rollback has returned for a transaction that had put a value for A in
\* its redo log and aborted in commit-time validation, with its locks
\* taken: memory holds what the other transaction committed
C25_Witness ==
  /\ alg = NANO /\ wl = "two"
  /\ tx[2].pc = "begin" /\ hist.abortAt[2] = "nc_val"
  /\ tx[1].pc = "done" /\ mem[0] = 1 /\ mem[1] = 2 /\ mem = hist.cmem

\* every byte of every word logged in log lies in [exception, exception + len)
Covered(log, exception, len) ==
  \A i \in 1 .. Len(log) :
    /\ ByteAddr(log[i].addr, 0) >= exception
    /\ ByteAddr(log[i].addr, 0) + WordBytes <= exception + len

\* C26: UndoLog full-coverage boundary -- a ByteEager rollback that calls
\* UndoLog::undo with a non-null exception whose range contains every byte
\* of every logged word skips every entry and leaves memory as it is; with
\* exception == NULL it leaves memory as it was before the transaction's
\* first write (every entry replayed, newest first).
C26_UndoFullCoverage ==
  [][(alg = BE /\ tx[Thrower].pc = "op" /\ tx'[Thrower].pc = "done") =>
       LET log == tx[Thrower].undo_log
           exception == scope.thrown[1]
           len == scope.thrown[2]
       IN /\ (exception # 0 /\ Covered(log, exception, len)) =>
               /\ mem' = mem
               /\ \A i \in 1 .. Len(log) :
                    filter(log[i], exception, exception + len).skip
          /\ exception = 0 => mem' = hist.cmem]_vars

\* a cancel has rolled back two logged writes, the second ending on the
\* last byte of a thrown range that covers both words: nothing was undone
C26_Witness ==
  /\ alg = BE /\ wl = "throw" /\ hist.last = "cancel"
  /\ scope.thrown = <<ByteAddr(1, 0), 2 * WordBytes>>
  /\ mem = hist.view
  /\ mem[ByteAddr(1, 0)] = 1 /\ mem[ByteAddr(2, WordBytes - 1)] = 2

\* byte i of the entry's word lies in the range the entry was filtered
\* against
Protected(i) ==
  ByteAddr(hist.e.addr, i) >= hist.lower /\ ByteAddr(hist.e.addr, i) < hist.upper

\* the entry's word lies in the range and ends before the range does: the
\* case filterSlow answers with its first test
Shortcut ==
  /\ ByteAddr(hist.e.addr, 0) >= hist.lower
  /\ ByteAddr(hist.e.addr, 0) + WordBytes < hist.upper

\* C27 as stated: for an entry whose word intersects the range, filterSlow
\* leaves the mask with exactly the bytes outside the range, and reports the
\* entry discarded exactly when no masked byte lies outside the range.
C27_FilterClearsExactly ==
  (wl = "filter" /\ hist.last = "filtered" /\ \E i \in ByteIdx : Protected(i)) =>
    /\ hist.out.e.mask =
         [i \in ByteIdx |-> IF Protected(i) THEN 0 ELSE hist.e.mask[i]]
    /\ hist.out.skip <=> (\A i \in ByteIdx : hist.e.mask[i] = 1 => Protected(i))

\* C27, amended: for an entry whose word intersects the range, filterSlow
\* reports the entry discarded exactly when no masked byte lies outside the
\* range; it leaves the mask with exactly the bytes outside the range,
\* except that a word that lies in the range and ends before the range does
\* is discarded with its mask untouched; and the undo that follows writes
\* the logged value to the masked bytes outside the range and nothing else.
C27_FilterDiscards ==
  (wl = "filter" /\ hist.last = "filtered" /\ \E i \in ByteIdx : Protected(i)) =>
    /\ hist.out = filterSlow(hist.e, hist.lower, hist.upper)
    /\ hist.out.skip <=> (\A i \in ByteIdx : hist.e.mask[i] = 1 => Protected(i))
    /\ hist.out.e.mask =
         IF Shortcut THEN hist.e.mask
         ELSE [i \in ByteIdx |-> IF Protected(i) THEN 0 ELSE hist.e.mask[i]]
    /\ \A i \in ByteIdx :
         mem[ByteAddr(hist.e.addr, i)] =
           IF hist.e.mask[i] = 1 /\ ~Protected(i) THEN hist.e.val[i] ELSE 1

\* a fully masked word that straddles the start of the range has been
\* filtered and undone: its first byte is restored, its last byte is not
C27_Witness ==
  /\ wl = "filter" /\ hist.last = "filtered"
  /\ \A i \in ByteIdx : hist.e.mask[i] = 1
  /\ ~Protected(0) /\ Protected(WordBytes - 1)
  /\ ~hist.out.skip /\ hist.out.e.mask[0] = 1 /\ hist.out.e.mask[WordBytes - 1] = 0
  /\ mem[ByteAddr(hist.e.addr, 0)] = 0 /\ mem[ByteAddr(hist.e.addr, WordBytes - 1)] = 1

\* the write set of the thread that uses it
WS == tx[Thrower].writes

\* list slot i is found by probing from the hash of its address through
\* slots that carry the current version
RECURSIVE ProbeTo(_, _, _, _)
ProbeTo(ws, h, i, n) ==
  /\ n > 0
  /\ ws.index[h].version = ws.version
  /\ \/ ws.index[h].index = i /\ ws.index[h].address = ws.list[i].addr
     \/ /\ ws.index[h].address # ws.list[i].addr
        /\ ProbeTo(ws, (h + 1) % ws.ilength, i, n - 1)

Indexed(ws) ==
  \A i \in 0 .. (ws.lsize - 1) : ProbeTo(ws, hash(ws, ws.list[i].addr), i, ws.ilength)

\* C28: an insert that grows the list doubles capacity and keeps the
\* entries that were there, in their slots, with the new entry after them;
\* an insert that rebuilds the index doubles ilength, its probing ends, and
\* afterwards every list slot below lsize is found by probing from the hash
\* of its address through current-version slots, at a slot whose index is
\* that list slot.
C28_GrowthKeepsContents ==
  [][wl = "writeset" =>
      LET ws == tx[Thrower].writes
          ws2 == tx'[Thrower].writes
      IN /\ ws2.capacity # ws.capacity =>
              /\ ws2.capacity = 2 * ws.capacity
              /\ ws2.lsize = ws.lsize + 1
              /\ \A i \in 0 .. (ws.lsize - 1) : ws2.list[i] = ws.list[i]
              /\ \E a \in WSAddrs :
                   /\ hist.live[a] = 0
                   /\ ws2.list[ws.lsize] = [addr |-> a, val |-> hist'.live[a]]
         /\ ws2.ilength # ws.ilength =>
              /\ ws2.ilength = 2 * ws.ilength
              /\ ~hist'.hang
              /\ Indexed(ws2)
              /\ \A i \in 0 .. (ws2.lsize - 1) :
                   \E h \in 0 .. (ws2.ilength - 1) :
                     ws2.index[h] = [version |-> ws2.version,
                                     address |-> ws2.list[i].addr, index |-> i]]_vars

\* one insert has doubled the list and rebuilt the index, and in the new
\* index the two entries hash to the same slot, so one was placed by probing
C28_Witness ==
  /\ wl = "writeset" /\ hist.last = "insert" /\ hist.probed
  /\ WS.lsize = 2 /\ WS.capacity = 4 /\ WS.ilength = 8
  /\ hash(WS, WS.list[0].addr) = hash(WS, WS.list[1].addr)

\* what find must answer for address a
Expected(a) ==
  IF hist.live[a] # 0 THEN [hit |-> TRUE, val |-> hist.live[a]]
  ELSE [hit |-> FALSE, val |-> 0]

\* C29: the version of the write set is never 0; an index slot counts as
\* live only if it was written since the last reset, so a zeroed slot never
\* does; and find answers with exactly what was inserted since the last
\* reset, whether or not the counter has wrapped.
C29_VersionNeverZero ==
  wl = "writeset" =>
    /\ WS.version # 0
    /\ \A h \in 0 .. (WS.ilength - 1) :
         WS.index[h].version = WS.version =>
           /\ WS.index[h] # FreshSlot
           /\ WS.index[h].index < WS.lsize
           /\ WS.list[WS.index[h].index].addr = WS.index[h].address
           /\ hist.live[WS.index[h].address] # 0
    /\ \A a \in WSAddrs : WriteSet_find_value(WS, a) = Expected(a)
    /\ hist.last = "find" => hist.found = Expected(hist.key)

\* the counter has wrapped back to 1 and a find has missed an address the
\* write set held when it wrapped
C29_Witness ==
  /\ wl = "writeset" /\ hist.last = "find"
  /\ WS.version = 1
  /\ hist.key \in hist.old /\ hist.live[hist.key] = 0
  /\ ~hist.found.hit

\* what holds of the descriptors in every state: since its last finalize a
\* thread has run thread_init once if it has a descriptor and not at all if
\* it has none, every _ITM_getTransaction has returned the descriptor it
\* has now, and no two threads share a descriptor
OneDescriptor ==
  \A t \in Threads :
    /\ hist.thread_init[t] = IF tx[t].td # 0 THEN 1 ELSE 0
    /\ hist.returned[t] \subseteq {tx[t].td} \ {0}
    /\ tx[t].td # 0 => tx[t].td \in hist.live
    /\ \A u \in Threads \ {t} : tx[t].td # 0 => tx[u].td # tx[t].td

\* what holds of every finalize: the thread has no descriptor afterwards,
\* and the finalize of a thread without a descriptor changes neither td nor
\* the descriptors allocated
FinalizeSteps ==
  \A t \in Threads :
    (hist'.last.t = t /\ hist'.calls # hist.calls
       /\ hist'.last.op \in {"_ITM_finalizeThread", "_ITM_finalizeProcess"}) =>
      /\ tx'[t].td = 0
      /\ hist'.live = hist.live \ {tx[t].td}
      /\ tx[t].td = 0 => (tx' = tx /\ hist'.live = hist.live)

\* C30 as stated: the descriptor lifecycle of every thread, and sys_init is
\* called at most once in the process.
C30_SysInitOnce ==
  wl = "itm" => (OneDescriptor /\ hist.sys_init <= 1)

\* C30, amended: between a thread's first _ITM_getTransaction and its
\* _ITM_finalizeThread every _ITM_getTransaction by the thread returns the
\* same descriptor and thread_init has run once; after a finalize the
\* thread has no descriptor and a further finalize changes nothing; and
\* sys_init is called by _ITM_initializeProcess exactly when the calling
\* thread has no descriptor, so at most once for each descriptor made and
\* not once for the process.
C30_DescriptorLifecycle ==
  /\ [](wl = "itm" => (OneDescriptor /\ hist.sys_init <= hist.allocated))
  /\ [][wl = "itm" =>
         /\ FinalizeSteps
         /\ \A t \in Threads :
              (hist'.last.t = t /\ hist'.calls # hist.calls) =>
                hist'.sys_init =
                  IF hist'.last.op = "_ITM_initializeProcess" /\ tx[t].td = 0
                  THEN hist.sys_init + 1 ELSE hist.sys_init]_vars

\* two threads have called _ITM_initializeProcess and hold descriptors,
\* sys_init has been called twice, and the last call was an
\* _ITM_getTransaction that returned the descriptor the thread already had
C30_Witness ==
  /\ wl = "itm"
  /\ hist.last.op = "_ITM_getTransaction" /\ ~hist.last.created
  /\ tx[hist.last.t].td # 0 /\ hist.returned[hist.last.t] = {tx[hist.last.t].td}
  /\ hist.sys_init = 2
  /\ \E u \in Threads \ {hist.last.t} : tx[u].td # 0

====
